---- MODULE Spec2Model ----
(***************************************************************************)
(* A model of the expression-tree core of operon: the linear postfix tree  *)
(* (Tree::UpdateNodes, Tree::Reduce, Tree::Sort, on well-formed and on     *)
(* arbitrary node vectors; Tree::GetCoefficients, Tree::SetCoefficients),  *)
(* the two tree creators (BalancedTreeCreator, ProbabilisticTreeCreator),  *)
(* the hierarchical non-dominated sorter, the proportional selector, the   *)
(* JSF random number generator, the Dataset and MeanVarianceCalculator.    *)
(* Each component has a specification of its own; the variables of the     *)
(* other components stay idle in it.                                       *)
(*                                                                         *)
(* Index convention: the C++ node vector is 0-based, TLA+ sequences are    *)
(* 1-based.  Position p of a sequence is index p - 1 of the code.  The     *)
(* Parent field keeps the code's 0-based index, so the parent of a node n  *)
(* is nodes[n.Parent + 1].                                                 *)
(***************************************************************************)
EXTENDS Integers, Sequences, FiniteSets, TLC

VARIABLES
    nodes,      \* Tree::nodes, the postfix node vector
    phase,      \* which operation was applied to the tree last
    orig,       \* the node vector the last operation started from
    call,       \* a creator call: creator, primitive set, bias, arguments
    cpc,        \* where the creator call stands: idle, loop, done, failed
    loc,        \* the locals of the running creator call
    ctree,      \* the node vector of the tree the creator returned
    hs,         \* a HierarchicalSorter::Sort call: its argument and locals
    sel,        \* a ProportionalSelector: population, stored array, draw
    jsf,        \* JsfRand generators: seed, state words, outputs
    ds,         \* a Dataset: variables, values, view mode, last outcome
    mv,         \* MeanVarianceCalculator accumulators and their combinations
    co          \* a tree with leaf values and the coefficient vectors read and written

treeVars == <<nodes, phase, orig>>

creatorVars == <<call, cpc, loc, ctree>>

compVars == <<hs, sel, jsf, ds, mv, co>>

vars == <<nodes, phase, orig, call, cpc, loc, ctree, hs, sel, jsf, ds, mv, co>>

\* a component that takes no part in the specification at hand
Idle == [pc |-> "off"]

(***************************************************************************)
(* Bounds of the tree model.                                               *)
(***************************************************************************)
MaxNodes == 5

MaxArity == 3

HashValues == {1, 2}

(***************************************************************************)
(* Bounds of the creator model: the target lengths passed to a creator,    *)
(* the largest arity of a function symbol, and how                         *)
(* many nodes beyond the target length a run may generate before the model *)
(* stops following it.                                                     *)
(***************************************************************************)
MaxTargetLen == 6

\* the max_depth arguments tried: tight ones, and the 1000 of the tests
DepthArgs == {1, 2, 1000}

MaxFunctionArity == 3

GrowthSlack == 1

(***************************************************************************)
(* Node (core/node.hpp is not part of the sources at hand; the fields and  *)
(* predicates follow the data model of the specification).                 *)
(***************************************************************************)
Uint16 == 65536

LeafTypes == {"Variable"}

FunctionTypes == {"Add", "Sub"}

\* the node types are single-bit flags, compared as numbers
TypeOrd(t) == CASE t = "Add" -> 1 [] t = "Sub" -> 4 [] t = "Variable" -> 8 [] OTHER -> 16

IsLeaf(n) == n.Arity = 0

IsCommutative(n) == n.Type \in {"Add", "Mul"}

\* Node::operator< : first by type, then by hash value
NodeLess(a, b) ==
    \/ TypeOrd(a.Type) < TypeOrd(b.Type)
    \/ TypeOrd(a.Type) = TypeOrd(b.Type) /\ a.HashValue < b.HashValue

\* a freshly constructed node: derived fields not yet computed
NewNode(t, a, h, i) ==
    [Type |-> t, Arity |-> a, HashValue |-> h, Length |-> 0, Depth |-> 1,
     Level |-> 0, Parent |-> 0, IsEnabled |-> TRUE, id |-> i]

Max(a, b) == IF a >= b THEN a ELSE b

Min(a, b) == IF a <= b THEN a ELSE b

RECURSIVE SumArity(_)
SumArity(ns) == IF ns = <<>> THEN 0 ELSE ns[1].Arity + SumArity(Tail(ns))

\* number of complete subtrees a postfix prefix holds
Roots(ns) == Len(ns) - SumArity(ns)

(***************************************************************************)
(* Tree::UpdateNodes                                                       *)
(***************************************************************************)
\* the inner loop over the k remaining children of the node at position i,
\* j being the position of the child looked at (on a well-formed vector j
\* stays inside the vector; the walk is cut off where it would leave it)
RECURSIVE UpdateChildren(_, _, _, _)
UpdateChildren(ns, i, j, k) ==
    IF k = 0 \/ j < 1 THEN ns
    ELSE LET p == ns[j]
             s == ns[i]
             ns2 == [ns EXCEPT ![i].Length = (s.Length + p.Length) % Uint16,
                               ![i].Depth = Max(s.Depth, p.Depth),
                               ![j].Parent = (i - 1) % Uint16]
         IN UpdateChildren(ns2, i, j - (p.Length + 1), k - 1)

UpdateNodeWrong(ns, i) ==
    LET s0 == [ns EXCEPT ![i].Depth = 1, ![i].Length = ns[i].Arity]
    IN IF IsLeaf(ns[i]) THEN s0
       ELSE LET r == UpdateChildren(s0, i, i - 1, ns[i].Arity)
            IN [r EXCEPT ![i].Depth = r[i].Depth + 1, ![i].Length = ns[i].Arity]

\* one iteration of the first loop: node at position i
UpdateNode(ns, i) ==
    LET s0 == [ns EXCEPT ![i].Depth = 1, ![i].Length = ns[i].Arity]
    IN IF IsLeaf(ns[i]) THEN s0
       ELSE LET r == UpdateChildren(s0, i, i - 1, ns[i].Arity)
            IN [r EXCEPT ![i].Depth = r[i].Depth + 1]

RECURSIVE UpdatePass(_, _)
UpdatePass(ns, i) ==
    IF i > Len(ns) THEN ns ELSE UpdatePass(UpdateNode(ns, i), i + 1)

LevelOfWrong(ns, i) == (ns[ns[i].Parent + 1].Level + 2) % Uint16

\* it->Level = nodes[it->Parent].Level + 1
LevelOf(ns, i) == (ns[ns[i].Parent + 1].Level + 1) % Uint16

\* the second loop, from the node before the root down to the first node
RECURSIVE LevelPass(_, _)
LevelPass(ns, i) ==
    IF i < 1 THEN ns
    ELSE LevelPass([ns EXCEPT ![i].Level = LevelOf(ns, i)], i - 1)

UpdateNodes(ns) ==
    LET a == UpdatePass(ns, 1)
        b == [a EXCEPT ![Len(a)].Level = 1]
    IN LevelPass(b, Len(b) - 1)

(***************************************************************************)
(* Tree::Children(i): the child positions of the node at position i, in    *)
(* iteration order (from i - 1 backwards, jumping over each child's        *)
(* subtree by its stored Length).  The iterator lives in core/tree.hpp,    *)
(* which is not part of the sources at hand.                               *)
(***************************************************************************)
RECURSIVE ChildWalk(_, _, _)
ChildWalk(ns, i, j) ==
    IF j < 1 \/ j >= i \/ j < i - ns[i].Length THEN <<>>
    ELSE <<j>> \o ChildWalk(ns, i, j - (ns[j].Length + 1))

Children(ns, i) == ChildWalk(ns, i, i - 1)

(***************************************************************************)
(* Tree::Reduce                                                            *)
(***************************************************************************)
HashMatchWrong(s, c) == s.Type = c.Type

HashMatchInverted(s, c) == s.HashValue # c.HashValue

\* the test of the inner loop: s.HashValue == it->HashValue
HashMatch(s, c) == s.HashValue = c.HashValue

\* s.Arity = s.Arity + it->Arity - 1
AbsorbedArity(s, c) == (s.Arity + c.Arity - 1) % Uint16

\* the inner loop over the children cs (positions) of the node at position i
RECURSIVE ReduceChildren(_, _, _)
ReduceChildren(ns, i, cs) ==
    IF cs = <<>> THEN ns
    ELSE LET c == Head(cs)
         IN IF HashMatch(ns[i], ns[c])
            THEN ReduceChildren([ns EXCEPT ![c].IsEnabled = FALSE,
                                           ![i].Arity = AbsorbedArity(ns[i], ns[c])],
                                i, Tail(cs))
            ELSE ReduceChildren(ns, i, Tail(cs))

RECURSIVE ReducePass(_, _)
ReducePass(ns, i) ==
    IF i > Len(ns) THEN ns
    ELSE IF IsLeaf(ns[i]) \/ ~IsCommutative(ns[i]) THEN ReducePass(ns, i + 1)
    ELSE ReducePass(ReduceChildren(ns, i, Children(ns, i)), i + 1)

\* erase(remove_if(... !s.IsEnabled ...)); without a disabled node this is
\* the identity, as is skipping it when nothing was reduced
RemoveDisabled(ns) == SelectSeq(ns, LAMBDA n : n.IsEnabled)

Reduce(ns) == UpdateNodes(RemoveDisabled(ReducePass(ns, 1)))

(***************************************************************************)
(* Tree::Sort                                                              *)
(***************************************************************************)
\* every order an unstable comparison sort (pdqsort) may leave the items of
\* the index set S in: each sequence over S without an inversion
RECURSIVE SortedOrders(_, _)
SortedOrders(S, item) ==
    IF S = {} THEN {<<>>}
    ELSE UNION { { <<m>> \o t : t \in SortedOrders(S \ {m}, item) } :
                 m \in { x \in S : \A y \in S : ~NodeLess(item[y], item[x]) } }

Range(f) == { f[x] : x \in DOMAIN f }

RECURSIVE CopyBlocksWrong(_, _, _, _)
CopyBlocksWrong(ns, sorted, cs, pos) ==
    IF cs = <<>> THEN sorted
    ELSE LET j == Head(cs)
             len == ns[j].Length
             s2 == [p \in 1..Len(sorted) |->
                       IF p >= pos /\ p <= pos + len
                       THEN ns[j - len + (p - pos)] ELSE sorted[p]]
         IN CopyBlocksWrong(ns, s2, Tail(cs), pos + len)

\* std::copy_n of the child subtrees, in the order cs, to pos and onwards
RECURSIVE CopyBlocks(_, _, _, _)
CopyBlocks(ns, sorted, cs, pos) ==
    IF cs = <<>> THEN sorted
    ELSE LET j == Head(cs)
             len == ns[j].Length
             s2 == [p \in 1..Len(sorted) |->
                       IF p >= pos /\ p <= pos + len
                       THEN ns[j - len + (p - pos)] ELSE sorted[p]]
         IN CopyBlocks(ns, s2, Tail(cs), pos + len + 1)

\* the branch arity == size: pdqsort(start + i - size, start + i) on nodes
SortLeavesInPlace(st, i) ==
    LET ns == st.nodes
        size == ns[i].Length
        S == (i - size)..(i - 1)
    IN { [nodes |-> [p \in 1..Len(ns) |->
                        IF p \in S THEN ns[o[p - (i - size) + 1]] ELSE ns[p]],
          sorted |-> st.sorted] : o \in SortedOrders(S, ns) }

\* the else branch: sort the child indices, copy the subtrees into sorted
SortSubtrees(st, i) ==
    LET ns == st.nodes
        size == ns[i].Length
    IN { [nodes |-> ns, sorted |-> CopyBlocks(ns, st.sorted, o, i - size)] :
         o \in SortedOrders(Range(Children(ns, i)), ns) }

\* one iteration of the loop of Sort, node at position i; st holds the two
\* vectors, nodes and sorted
SortNode(st, i) ==
    LET s == st.nodes[i]
    IN IF IsLeaf(s) \/ ~IsCommutative(s) THEN {st}
       ELSE IF s.Arity = s.Length THEN SortLeavesInPlace(st, i)
       ELSE SortSubtrees(st, i)

RECURSIVE SortPass(_, _, _)
SortPass(sts, i, n) ==
    IF i > n THEN sts
    ELSE SortPass(UNION { SortNode(st, i) : st \in sts }, i + 1, n)

\* sorted = nodes; the loop; nodes.swap(sorted); UpdateNodes()
SortResults(ns) ==
    { UpdateNodes(st.sorted) : st \in SortPass({[nodes |-> ns, sorted |-> ns]}, 1, Len(ns)) }

(***************************************************************************)
(* size_t arithmetic.  A size_t is 64 bits wide, more than the integers of *)
(* the model checker hold, so a value v >= 2^63 is written v - 2^64: the   *)
(* result of a subtraction that wrapped below zero is kept as the negative *)
(* difference.  Sums and differences of such numbers are those of the code *)
(* modulo 2^64, and in the unsigned order every negative number (a huge    *)
(* value) lies above every non-negative one.                               *)
(***************************************************************************)
ULess(a, b) == IF (a >= 0) = (b >= 0) THEN a < b ELSE b < 0

\* std::min on size_t
UMin(a, b) == IF ULess(b, a) THEN b ELSE a

(***************************************************************************)
(* PrimitiveSet (core/pset.cpp is not part of the sources at hand).  The   *)
(* creators see a primitive set only through FunctionArityLimits and the   *)
(* arity of the sampled symbol, so it is given by the set of arities that  *)
(* its enabled function symbols offer (the union of their arity windows);  *)
(* a leaf symbol (arity 0) is always enabled.                              *)
(***************************************************************************)
PrimitiveSets == (SUBSET (1..MaxFunctionArity)) \ {{}}

\* FunctionArityLimits: the envelope over the enabled function symbols
MinFunctionArity(ps) == CHOOSE lo \in ps : \A a \in ps : lo <= a

MaxFunctionArityOf(ps) == CHOOSE hi \in ps : \A a \in ps : hi >= a

\* SampleRandomSymbol(random, minArity, maxArity): the arities the sampled
\* node may have; empty when no enabled symbol fits (NoSymbolAvailable)
SampleArities(ps, minArity, maxArity) ==
    { a \in ps \cup {0} : minArity <= a /\ a <= maxArity }

\* the node a creator samples: a leaf or a function of arity a
CreatorNode(a, i) == NewNode(IF a = 0 THEN "Variable" ELSE "Function", a, 0, 0)

(***************************************************************************)
(* What the two creators share                                             *)
(***************************************************************************)
\* if (targetLen > 1 && targetLen < minFunctionArity + 1) targetLen = minFunctionArity + 1
ClipTarget(targetLen, minFA) ==
    IF targetLen > 1 /\ targetLen < minFA + 1 THEN minFA + 1 ELSE targetLen

RootMaxArityWrong(maxFA, targetLen) == UMin(maxFA, targetLen)

\* auto maxArity = std::min(maxFunctionArity, targetLen - 1)
RootMaxArity(maxFA, targetLen) == UMin(maxFA, targetLen - 1)

\* the postfix vector written by the recursive lambda `add`: a preorder
\* walk from entry i (0-based), written from the back of the vector;
\* ns the entries (1-based), first[i + 1] the index of the first child
RECURSIVE Preorder(_, _, _)
RECURSIVE PreorderChildren(_, _, _, _, _)
Preorder(ns, first, i) ==
    <<ns[i + 1]>> \o PreorderChildren(ns, first, i, 0, ns[i + 1].Arity)

PreorderChildren(ns, first, i, j, a) ==
    IF j >= a THEN <<>>
    ELSE Preorder(ns, first, first[i + 1] + j) \o PreorderChildren(ns, first, i, j + 1, a)

Reverse(sq) == [k \in 1..Len(sq) |-> sq[Len(sq) + 1 - k]]

PostfixWrong(ns, first) == Preorder(ns, first, 0)

Postfix(ns, first) == Reverse(Preorder(ns, first, 0))

(***************************************************************************)
(* BalancedTreeCreator::operator()                                         *)
(***************************************************************************)
BtcChildMaxArityLeafy(maxFA, targetLen, openSlots, size, irregular) ==
    IF ULess(0, openSlots - size) THEN 0
    ELSE UMin(maxFA, targetLen - openSlots - 1)

BtcChildMaxArityWrong(maxFA, targetLen, openSlots, size, irregular) ==
    IF ULess(1, openSlots - size) /\ irregular THEN 0
    ELSE UMin(maxFA, targetLen - openSlots)

\* maxArity of a child, before the fallback to a leaf
BtcChildMaxArity(maxFA, targetLen, openSlots, size, irregular) ==
    IF ULess(1, openSlots - size) /\ irregular THEN 0
    ELSE UMin(maxFA, targetLen - openSlots - 1)

\* the outer loop moves on: entries without children are passed over, each
\* one getting its child index set to the size of the vector
RECURSIVE BtcAdvance(_, _)
BtcAdvance(tuples, i) ==
    IF i >= Len(tuples) THEN [tuples |-> tuples, i |-> i]
    ELSE LET t == [tuples EXCEPT ![i + 1].childIndex = Len(tuples)]
         IN IF t[i + 1].node.Arity = 0 THEN BtcAdvance(t, i + 1)
            ELSE [tuples |-> t, i |-> i]

BtcTree(tuples) ==
    UpdateNodes(Postfix([k \in 1..Len(tuples) |-> tuples[k].node],
                        [k \in 1..Len(tuples) |-> tuples[k].childIndex]))

(***************************************************************************)
(* ProbabilisticTreeCreator::operator()                                    *)
(***************************************************************************)
\* random_dequeue with the random index j (1-based): swap to the front, pop
DequeueAt(q, j) ==
    [depth |-> q[j], rest |-> Tail([q EXCEPT ![j] = q[1], ![1] = q[j]])]

\* maxArity of the node for a dequeued slot, before the adjustment
PtcMaxArity(maxFA, targetLen, qsize, size, irregular) ==
    IF qsize > 1 /\ irregular THEN 0
    ELSE UMin(maxFA, targetLen - qsize - size - 1)

\* targetLen -= minFunctionArity - maxArity
AdjustTarget(targetLen, minFA, maxArity) == targetLen - (minFA - maxArity)

\* every order std::sort by Depth may leave the nodes at the positions S in
RECURSIVE DepthOrders(_, _)
DepthOrders(S, item) ==
    IF S = {} THEN {<<>>}
    ELSE UNION { { <<m>> \o t : t \in DepthOrders(S \ {m}, item) } :
                 m \in { x \in S : \A y \in S : ~(item[y].Depth < item[x].Depth) } }

\* childIndices: the running count c of the second loop
RECURSIVE ChildIndices(_, _, _)
ChildIndices(ns, i, c) ==
    IF i > Len(ns) THEN <<>>
    ELSE IF IsLeaf(ns[i]) THEN <<0>> \o ChildIndices(ns, i + 1, c)
    ELSE <<c>> \o ChildIndices(ns, i + 1, c + ns[i].Arity)

\* the trees the tail of the call may return for the generated nodes ns
PtcTrees(ns) ==
    { LET sorted == [k \in 1..Len(ns) |-> ns[o[k]]]
      IN UpdateNodes(Postfix(sorted, ChildIndices(sorted, 1, 1))) :
      o \in DepthOrders(1..Len(ns), ns) }

(***************************************************************************)
(* The tree under test is built node by node in postfix order; a vector    *)
(* holding exactly one complete subtree is a well-formed tree.             *)
(***************************************************************************)
PushNode ==
    /\ phase = "build"
    /\ Len(nodes) < MaxNodes
    /\ \E t \in LeafTypes \cup FunctionTypes, h \in HashValues, a \in 0..MaxArity :
          /\ (t \in LeafTypes) <=> (a = 0)
          /\ a <= Roots(nodes)
          /\ nodes' = Append(nodes, NewNode(t, a, h, Len(nodes) + 1))
    /\ UNCHANGED <<phase, orig>>
    /\ UNCHANGED <<creatorVars, compVars>>

DoUpdateNodes ==
    /\ phase = "build"
    /\ Len(nodes) >= 1
    /\ Roots(nodes) = 1
    /\ orig' = nodes
    /\ nodes' = UpdateNodes(nodes)
    /\ phase' = "updated"
    /\ UNCHANGED <<creatorVars, compVars>>

DoReduce ==
    /\ phase = "updated"
    /\ orig' = nodes
    /\ nodes' = Reduce(nodes)
    /\ phase' = "reduced"
    /\ UNCHANGED <<creatorVars, compVars>>

DoSort ==
    /\ phase = "updated"
    /\ orig' = nodes
    /\ nodes' \in SortResults(nodes)
    /\ phase' = "sorted"
    /\ UNCHANGED <<creatorVars, compVars>>

(***************************************************************************)
(* A creator call, one sampled node per step.                              *)
(***************************************************************************)
NoLocals ==
    [targetLen |-> 0, minArity |-> 0, maxArity |-> 0, error |-> "",
     tuples |-> <<>>, openSlots |-> 0, i |-> 0, j |-> 0, nodes |-> <<>>, q |-> <<>>]

NoCall == [alg |-> "none", pset |-> {}, bias |-> FALSE, targetLen |-> 0, maxDepth |-> 0]

\* how far the model follows a run: to this many nodes, generated and
\* pending; a run that keeps to its target length stays below it
GrowthCap == MaxTargetLen + GrowthSlack

\* the outcomes of sampleIrregular(random)
Irregular == IF call.bias THEN BOOLEAN ELSE {FALSE}

Fail(why) ==
    /\ cpc' = "failed"
    /\ loc' = [loc EXCEPT !.error = why]
    /\ UNCHANGED ctree

\* the call up to the root: clip the target, sample the root, return it if
\* it is a leaf
CreatorStart ==
    /\ cpc = "idle"
    /\ LET minFA == MinFunctionArity(call.pset)
           maxFA == MaxFunctionArityOf(call.pset)
           targetLen == ClipTarget(call.targetLen, minFA)
           maxArity == RootMaxArity(maxFA, targetLen)
           minArity == UMin(minFA, maxArity)
           arities == SampleArities(call.pset, minArity, maxArity)
           l0 == [NoLocals EXCEPT !.targetLen = targetLen,
                                  !.minArity = minArity, !.maxArity = maxArity]
       IN IF arities = {}
          THEN /\ cpc' = "failed"
               /\ loc' = [l0 EXCEPT !.error = "NoSymbolAvailable"]
               /\ UNCHANGED ctree
          ELSE \E a \in arities :
                 IF a = 0
                 THEN /\ ctree' = UpdateNodes(<<CreatorNode(0, 1)>>)
                      /\ cpc' = "done"
                      /\ loc' = l0
                 ELSE /\ cpc' = "loop"
                      /\ UNCHANGED ctree
                      /\ loc' = IF call.alg = "btc"
                                THEN [l0 EXCEPT
                                        !.tuples = <<[node |-> CreatorNode(a, 1),
                                                      depth |-> 1, childIndex |-> 1]>>,
                                        !.openSlots = a]
                                ELSE [l0 EXCEPT
                                        !.nodes = <<[CreatorNode(a, 1) EXCEPT !.Depth = 1]>>,
                                        !.q = [k \in 1..a |-> 2]]
    /\ UNCHANGED call
    /\ UNCHANGED <<treeVars, compVars>>

\* BalancedTreeCreator: one pass of the inner loop (one child of tuples[i])
BtcChild ==
    /\ cpc = "loop"
    /\ call.alg = "btc"
    /\ loc.openSlots + 1 <= GrowthCap
    /\ \E irregular \in Irregular :
         LET minFA == MinFunctionArity(call.pset)
             maxFA == MaxFunctionArityOf(call.pset)
             size == Len(loc.tuples)
             parent == loc.tuples[loc.i + 1]
             m0 == BtcChildMaxArity(maxFA, loc.targetLen, loc.openSlots, size, irregular)
             leafOnly == ULess(m0, minFA)
             maxArity == IF leafOnly THEN 0 ELSE m0
             minArity == IF leafOnly THEN 0 ELSE loc.minArity
             arities == SampleArities(call.pset, minArity, maxArity)
         IN IF arities = {} THEN Fail("NoSymbolAvailable")
            ELSE \E a \in arities :
                   LET t1 == Append(loc.tuples,
                                    [node |-> CreatorNode(a, size + 1),
                                     depth |-> parent.depth + 1, childIndex |-> 0])
                       last == loc.j + 1 >= parent.node.Arity
                       adv == IF last THEN BtcAdvance(t1, loc.i + 1)
                              ELSE [tuples |-> t1, i |-> loc.i]
                   IN /\ loc' = [loc EXCEPT !.tuples = adv.tuples, !.i = adv.i,
                                            !.j = IF last THEN 0 ELSE loc.j + 1,
                                            !.openSlots = loc.openSlots + a,
                                            !.minArity = minArity, !.maxArity = maxArity]
                      /\ IF adv.i >= Len(adv.tuples)
                         THEN cpc' = "done" /\ ctree' = BtcTree(adv.tuples)
                         ELSE cpc' = "loop" /\ UNCHANGED ctree
    /\ UNCHANGED call
    /\ UNCHANGED <<treeVars, compVars>>

\* ProbabilisticTreeCreator: one pass of the while loop
PtcStep ==
    /\ cpc = "loop"
    /\ call.alg = "ptc2"
    /\ Len(loc.q) > 0
    /\ Len(loc.nodes) + Len(loc.q) <= GrowthCap
    /\ \E at \in 1..Len(loc.q), irregular \in Irregular :
         LET minFA == MinFunctionArity(call.pset)
             maxFA == MaxFunctionArityOf(call.pset)
             dq == DequeueAt(loc.q, at)
             qsize == Len(dq.rest)
             size == Len(loc.nodes)
             m0 == PtcMaxArity(maxFA, loc.targetLen, qsize, size, irregular)
             adjust == m0 > 0 /\ ULess(m0, minFA)
             expected == loc.targetLen > 0
                         /\ (loc.targetLen = 1 \/ ~ULess(loc.targetLen, minFA + 1))
             targetLen == IF adjust THEN AdjustTarget(loc.targetLen, minFA, m0)
                          ELSE loc.targetLen
             maxArity == IF adjust THEN UMin(maxFA, targetLen - qsize - size - 1) ELSE m0
             minArity == UMin(minFA, maxArity)
             arities == SampleArities(call.pset, minArity, maxArity)
         IN IF adjust /\ ~expected THEN Fail("Expect")
            ELSE IF arities = {} THEN Fail("NoSymbolAvailable")
            ELSE \E a \in arities :
                   LET n1 == Append(loc.nodes,
                                    [CreatorNode(a, size + 1) EXCEPT !.Depth = dq.depth % Uint16])
                       q1 == dq.rest \o [k \in 1..a |-> dq.depth + 1]
                   IN /\ loc' = [loc EXCEPT !.nodes = n1, !.q = q1, !.targetLen = targetLen,
                                            !.minArity = minArity, !.maxArity = maxArity]
                      /\ IF q1 = <<>>
                         THEN cpc' = "done" /\ ctree' \in PtcTrees(n1)
                         ELSE cpc' = "loop" /\ UNCHANGED ctree
    /\ UNCHANGED call
    /\ UNCHANGED <<treeVars, compVars>>

(***************************************************************************)
(* Specifications: one for the tree operations, one for the creators.      *)
(***************************************************************************)
TreeInit ==
    /\ nodes = <<>>
    /\ phase = "build"
    /\ orig = <<>>
    /\ call = NoCall
    /\ cpc = "off"
    /\ loc = NoLocals
    /\ ctree = <<>>
    /\ hs = Idle /\ sel = Idle /\ jsf = Idle /\ ds = Idle /\ mv = Idle /\ co = Idle

TreeNext == PushNode \/ DoUpdateNodes \/ DoReduce \/ DoSort

SpecTree == TreeInit /\ [][TreeNext]_vars

CreatorInit ==
    /\ nodes = <<>>
    /\ phase = "off"
    /\ orig = <<>>
    /\ call \in [alg : {"btc", "ptc2"}, pset : PrimitiveSets, bias : BOOLEAN,
                 targetLen : 1..MaxTargetLen, maxDepth : DepthArgs]
    /\ cpc = "idle"
    /\ loc = NoLocals
    /\ ctree = <<>>
    /\ hs = Idle /\ sel = Idle /\ jsf = Idle /\ ds = Idle /\ mv = Idle /\ co = Idle

CreatorNext == CreatorStart \/ BtcChild \/ PtcStep

SpecCreator == CreatorInit /\ [][CreatorNext]_vars

(***************************************************************************)
(* The structure of a postfix vector, read from the arities alone.         *)
(***************************************************************************)
\* how many nodes the `need` subtrees ending at position j take up
RECURSIVE Span(_, _, _)
Span(ns, j, need) ==
    IF need = 0 \/ j < 1 THEN 0
    ELSE 1 + Span(ns, j - 1, need - 1 + ns[j].Arity)

DescendantCount(ns, i) == Span(ns, i - 1, ns[i].Arity)

WellFormed(ns) ==
    /\ Len(ns) >= 1
    /\ \A k \in 1..Len(ns) : ns[k].Arity <= Roots(SubSeq(ns, 1, k - 1))
    /\ Roots(ns) = 1

\* the positions of S in ascending order
RECURSIVE Ascending(_)
Ascending(S) ==
    IF S = {} THEN <<>>
    ELSE LET m == CHOOSE x \in S : \A y \in S : x <= y
         IN <<m>> \o Ascending(S \ {m})

\* for a well-formed vector: desc[i] the number of descendants of position
\* i, par[j] the position of the parent of j (0 for the root), kids[i] the
\* child positions of i in ascending order
Structure(ns) ==
    LET n == Len(ns)
        desc == [i \in 1..n |-> DescendantCount(ns, i)]
        par == [j \in 1..n |->
                   IF j = n THEN 0
                   ELSE CHOOSE i \in (j + 1)..n :
                           /\ j >= i - desc[i]
                           /\ \A k \in (j + 1)..(i - 1) : j < k - desc[k]]
        kids == [i \in 1..n |-> Ascending({ j \in 1..(i - 1) : par[j] = i })]
    IN [desc |-> desc, par |-> par, kids |-> kids]

ParentPos(ns, j) == Structure(ns).par[j]

RECURSIVE SumLengths(_, _)
SumLengths(ns, cs) ==
    IF cs = <<>> THEN 0 ELSE ns[Head(cs)].Length + 1 + SumLengths(ns, Tail(cs))

\* the ids of the nodes at the positions cs
IdsAt(ns, cs) == [k \in 1..Len(cs) |-> ns[cs[k]].id]

\* where each id sits in ns
PosById(ns) == [d \in { ns[p].id : p \in 1..Len(ns) } |->
                   CHOOSE p \in 1..Len(ns) : ns[p].id = d]

Ids(ns) == { ns[p].id : p \in 1..Len(ns) }

Shape(ns) == [p \in 1..Len(ns) |->
                 [Type |-> ns[p].Type, Arity |-> ns[p].Arity, HashValue |-> ns[p].HashValue]]

LengthsConsistent(ns) ==
    LET st == Structure(ns)
    IN \A i \in 1..Len(ns) :
          /\ ns[i].Length = SumLengths(ns, st.kids[i])
          /\ ns[i].Length = st.desc[i]
          /\ IsLeaf(ns[i]) => ns[i].Length = 0

LevelsConsistent(ns) ==
    LET st == Structure(ns)
    IN /\ ns[Len(ns)].Level = 1
       /\ \A j \in 1..(Len(ns) - 1) :
             /\ ns[j].Parent + 1 = st.par[j]
             /\ ns[j].Level = ns[st.par[j]].Level + 1

(***************************************************************************)
(* C1: after UpdateNodes on a well-formed postfix vector every node's      *)
(* Length is the sum over its children of (child.Length + 1), which is the *)
(* number of its descendants, so they occupy [i - Length, i - 1]; a leaf   *)
(* has Length 0.                                                           *)
(***************************************************************************)
C1_LengthIsDescendantCount ==
    phase = "updated" => WellFormed(orig) /\ LengthsConsistent(nodes)

C1_Witness ==
    /\ phase = "updated"
    /\ \E i \in 1..Len(nodes) : \E c \in Range(Structure(nodes).kids[i]) :
          nodes[i].Arity >= 2 /\ nodes[c].Length >= 1

(***************************************************************************)
(* C2: after UpdateNodes the root (the last node) has Level 1 and every    *)
(* other node has Parent = the index of the node it is a child of and      *)
(* Level = Level of that parent + 1.                                       *)
(***************************************************************************)
C2_RootLevelAndParents ==
    phase = "updated" => LevelsConsistent(nodes)

C2_Witness ==
    /\ phase = "updated"
    /\ \E j \in 1..Len(nodes) : nodes[j].Level = 3 /\ nodes[j].Parent + 1 < Len(nodes)

(***************************************************************************)
(* C3: after Sort the child subtree roots of every commutative node, read  *)
(* in ascending index, are in non-decreasing node order (type, then hash). *)
(***************************************************************************)
\* cs: child positions in ascending order
ChildrenSorted(ns, cs) ==
    \A k \in 1..(Len(cs) - 1) : ~NodeLess(ns[cs[k + 1]], ns[cs[k]])

C3_CommutativeChildrenSorted ==
    phase = "sorted" =>
        LET st == Structure(nodes)
        IN \A i \in 1..Len(nodes) :
              (IsCommutative(nodes[i]) /\ ~IsLeaf(nodes[i]))
                  => ChildrenSorted(nodes, st.kids[i])

(***************************************************************************)
(* C4: Sort is canonical: two well-formed hashed trees that differ only in *)
(* the order of the arguments of a commutative node sort to equal node     *)
(* sequences.                                                              *)
(***************************************************************************)
\* a hash without collisions: equal (type, hash) means equal subtrees
HashFaithful(ns) ==
    LET st == Structure(ns)
        sub == [i \in 1..Len(ns) |-> Shape(SubSeq(ns, i - st.desc[i], i))]
    IN \A a, b \in 1..Len(ns) :
          (ns[a].Type = ns[b].Type /\ ns[a].HashValue = ns[b].HashValue)
              => sub[a] = sub[b]

\* ns with the neighbouring child subtrees ending at c1 < c2 exchanged
SwapBlocks(ns, lo, c1, c2) ==
    SubSeq(ns, 1, lo - 1) \o SubSeq(ns, c1 + 1, c2) \o SubSeq(ns, lo, c1)
    \o SubSeq(ns, c2 + 1, Len(ns))

\* the trees that differ from ns in the order of two neighbouring arguments
\* of one commutative node
ArgumentSwaps(ns) ==
    LET st == Structure(ns)
    IN { UpdateNodes(SwapBlocks(ns, x[1] - st.desc[x[1]], x[1], x[2])) :
           x \in { y \in (1..Len(ns)) \X (1..Len(ns)) :
                     /\ y[1] < y[2]
                     /\ y[2] < Len(ns)
                     /\ y[1] = y[2] - st.desc[y[2]] - 1
                     /\ st.par[y[1]] = st.par[y[2]]
                     /\ IsCommutative(ns[st.par[y[1]]]) } }

C4_SortCanonical ==
    (phase = "sorted" /\ HashFaithful(orig)) =>
        \A t \in ArgumentSwaps(orig) : \A r \in SortResults(t) : Shape(r) = Shape(nodes)

(***************************************************************************)
(* C5: Sort returns a well-formed postfix tree that is a permutation of    *)
(* the input: same node count, same root, every node keeps its arity and   *)
(* its child subtrees (as a set of nodes), and the children of a           *)
(* non-commutative node keep their order.                                  *)
(***************************************************************************)
SameNodeFields(a, b) ==
    a.Type = b.Type /\ a.Arity = b.Arity /\ a.HashValue = b.HashValue

C5_SortPermutesSubtrees ==
    phase = "sorted" =>
        /\ WellFormed(nodes)
        /\ Len(nodes) = Len(orig)
        /\ Ids(nodes) = Ids(orig)
        /\ nodes[Len(nodes)].id = orig[Len(orig)].id
        /\ LET sn == Structure(nodes)
               so == Structure(orig)
               pn == PosById(nodes)
           IN \A q \in 1..Len(orig) :
                 LET p == pn[orig[q].id]
                     kn == IdsAt(nodes, sn.kids[p])
                     ko == IdsAt(orig, so.kids[q])
                 IN /\ SameNodeFields(nodes[p], orig[q])
                    /\ Range(kn) = Range(ko)
                    /\ ~IsCommutative(orig[q]) => kn = ko

\* a sort that moved a subtree of more than one node
C5_Witness ==
    /\ phase = "sorted"
    /\ Shape(nodes) # Shape(orig)
    /\ \E i \in 1..Len(orig) :
          IsCommutative(orig[i]) /\ orig[i].Arity >= 2 /\ orig[i].Length > orig[i].Arity

(***************************************************************************)
(* C6: after Reduce every child of a commutative node that had the hash of *)
(* that node is removed and its children are children of the node (also    *)
(* along chains); the node count drops by the number of absorbed nodes,    *)
(* the result is well formed with refreshed derived fields, and without a  *)
(* child sharing its parent's hash the node sequence is unchanged.         *)
(***************************************************************************)
\* the positions of ns that Reduce is to absorb into their parent
Absorbed(ns) ==
    LET st == Structure(ns)
    IN { c \in 1..(Len(ns) - 1) :
           LET n == ns[st.par[c]]
           IN IsCommutative(n) /\ ~IsLeaf(n) /\ n.HashValue = ns[c].HashValue }

\* the nearest ancestor of position j that is not in gone
RECURSIVE Survivor(_, _, _)
Survivor(par, gone, j) ==
    IF par[j] \in gone THEN Survivor(par, gone, par[j]) ELSE par[j]

C6_ReduceAbsorbs ==
    phase = "reduced" =>
        LET gone == Absorbed(orig)
            kept == Ascending((1..Len(orig)) \ gone)
        IN /\ Len(nodes) = Len(orig) - Cardinality(gone)
           /\ IdsAt(nodes, [k \in 1..Len(nodes) |-> k]) = IdsAt(orig, kept)
           /\ WellFormed(nodes)
           /\ LengthsConsistent(nodes)
           /\ LevelsConsistent(nodes)
           /\ LET sn == Structure(nodes)
                  so == Structure(orig)
              IN \A p \in 1..Len(nodes) :
                    LET q == kept[p]
                        mine == { j \in Range(kept) \ {Len(orig)} :
                                    Survivor(so.par, gone, j) = q }
                    IN /\ nodes[p].Type = orig[q].Type
                       /\ nodes[p].HashValue = orig[q].HashValue
                       /\ Range(IdsAt(nodes, sn.kids[p])) = { orig[j].id : j \in mine }
                       /\ nodes[p].Arity = Cardinality(mine)
           /\ (gone = {}) => Shape(nodes) = Shape(orig)

\* a chain: an absorbed node whose parent is absorbed as well
C6_Witness ==
    /\ phase = "reduced"
    /\ \E c \in Absorbed(orig) :
          /\ ParentPos(orig, c) \in Absorbed(orig)
          /\ orig[c].Arity >= 2

(***************************************************************************)
(* C7 as claimed: reducing the hashed tree [var(x), var(x), add(arity=2)]  *)
(* yields the two-node tree [var(x), add(arity=1)].  (Hashed: the root's   *)
(* hash is not the hash of its arguments.)                                 *)
(***************************************************************************)
IsXPlusX(ns) ==
    /\ Len(ns) = 3
    /\ ns[1].Type = "Variable" /\ ns[2].Type = "Variable"
    /\ ns[1].HashValue = ns[2].HashValue
    /\ ns[3].Type = "Add" /\ ns[3].Arity = 2

C7_ReduceCollapsesDuplicate ==
    (phase = "reduced" /\ IsXPlusX(orig) /\ orig[3].HashValue # orig[1].HashValue) =>
        Shape(nodes) = <<Shape(orig)[1], [Shape(orig)[3] EXCEPT !.Arity = 1]>>

(***************************************************************************)
(* C7 amended: reducing [var(x), var(x), add(arity=2)], whose root hash    *)
(* differs from the hash of its arguments, leaves the three nodes as they  *)
(* are: Reduce absorbs a child whose hash equals its parent's hash, it     *)
(* does not collapse equal siblings.                                       *)
(***************************************************************************)
C7_ReduceKeepsXPlusX ==
    (phase = "reduced" /\ IsXPlusX(orig) /\ orig[3].HashValue # orig[1].HashValue) =>
        Shape(nodes) = Shape(orig)

C7_Witness ==
    /\ phase = "reduced"
    /\ IsXPlusX(orig)
    /\ orig[3].HashValue # orig[1].HashValue
    /\ Len(nodes) = 3

(***************************************************************************)
(* C8: for both creators and every primitive set, a call with              *)
(* target_length = 1 returns a tree of exactly one node, a leaf with       *)
(* Length 0, Depth 1 and Level 1.                                          *)
(***************************************************************************)
C8_TargetOneGivesLeaf ==
    (call.targetLen = 1 /\ cpc \notin {"idle", "off"}) =>
        /\ cpc = "done"
        /\ Len(ctree) = 1
        /\ IsLeaf(ctree[1])
        /\ ctree[1].Length = 0 /\ ctree[1].Depth = 1 /\ ctree[1].Level = 1

C8_Witness ==
    /\ cpc = "done"
    /\ call.targetLen = 1
    /\ call.alg = "ptc2"
    /\ MinFunctionArity(call.pset) = 1
    /\ Len(ctree) = 1

(***************************************************************************)
(* C9: max_depth is a hard ceiling for both creators: the depth of the     *)
(* returned tree never exceeds the max_depth passed to the call.           *)
(***************************************************************************)
C9_DepthWithinMaxDepth ==
    cpc = "done" => ctree[Len(ctree)].Depth <= call.maxDepth

(***************************************************************************)
(* C10: the PTC2 generation loop terminates for every primitive set, bias  *)
(* and target length: the call never aborts without a tree, and with the   *)
(* default bias of 0 the generated and pending nodes never outgrow the     *)
(* target length (beyond it the remaining budget wraps around, every later *)
(* step must sample a function, and the queue can only grow).              *)
(***************************************************************************)
PtcRunaway ==
    /\ cpc = "loop"
    /\ call.alg = "ptc2"
    /\ ~call.bias
    /\ loc.targetLen < Len(loc.nodes) + Len(loc.q)

PtcRunawayPersists == [][PtcRunaway => PtcRunaway']_vars

C10_PtcLoopTerminates ==
    (call.alg = "ptc2" /\ cpc \notin {"idle", "off"}) =>
        (cpc # "failed" /\ ~PtcRunaway)

(***************************************************************************)
(* HierarchicalSorter::Sort.  Individuals are given by their fitness       *)
(* vectors (two objectives, smaller is better); indices are the code's     *)
(* 0-based indices, so individual i has fitness pop[i + 1].                *)
(***************************************************************************)
MaxPop == 3

FitnessValues == {1, 2, 3}

Fitnesses == FitnessValues \X FitnessValues

\* the population of the worked example: (1,4), (2,3), (3,2), (4,1), (2,2)
FivePoints == << <<1, 4>>, <<2, 3>>, <<3, 2>>, <<4, 1>>, <<2, 2>> >>

Populations == UNION { [1..n -> Fitnesses] : n \in 1..MaxPop } \cup {FivePoints}

ParetoCompareFirstObjective(a, b) ==
    IF a[1] < b[1] THEN "Left" ELSE IF a[1] > b[1] THEN "Right" ELSE "Equal"

\* Individual::ParetoCompare (core/individual.hpp is not part of the
\* sources at hand): strict dominance of the left or the right operand
ParetoCompare(a, b) ==
    LET better == \E k \in DOMAIN a : a[k] < b[k]
        worse == \E k \in DOMAIN a : a[k] > b[k]
    IN IF better /\ worse THEN "None"
       ELSE IF better THEN "Left"
       ELSE IF worse THEN "Right"
       ELSE "Equal"

\* LexicographicalComparison: std::lexicographical_compare on the fitness
LexLess(a, b) ==
    \E k \in DOMAIN a : a[k] < b[k] /\ \A m \in 1..(k - 1) : a[m] = b[m]

\* std::iota(q.begin(), q.end(), 0ul)
Iota(n) == [k \in 1..n |-> k - 1]

StaysInQueueWrong(cmp) == cmp \in {"None", "Right"}

\* pop[q1].ParetoCompare(pop[qj]) == Dominance::None
StaysInQueue(cmp) == cmp = "None"

\* std::stable_sort by lexicographical comparison, as an insertion sort:
\* x goes in front of the first entry that is greater than it
RECURSIVE InsertSorted(_, _, _)
InsertSorted(sq, x, pop) ==
    IF sq = <<>> THEN <<x>>
    ELSE IF LexLess(pop[x + 1], pop[Head(sq) + 1]) THEN <<x>> \o sq
    ELSE <<Head(sq)>> \o InsertSorted(Tail(sq), x, pop)

RECURSIVE StableSort(_, _)
StableSort(sq, pop) ==
    IF sq = <<>> THEN <<>>
    ELSE InsertSorted(StableSort(SubSeq(sq, 1, Len(sq) - 1), pop), sq[Len(sq)], pop)

RequeueWrong(q, dominated) == q \o SubSeq(dominated, 2, Len(dominated))

\* std::copy(dominated.begin(), dominated.end(), std::back_inserter(q))
Requeue(q, dominated) == q \o dominated

\* the loop test the call stands at after a step of the inner loops
HsAt(q, nd) == IF Len(q) > nd THEN "scan" ELSE "take"

\* q1 = q.front(); q.pop_front(); front.push_back(q1); nonDominatedCount = 0
HsTake ==
    /\ hs.pc = "take"
    /\ hs.q # <<>>
    /\ hs' = [hs EXCEPT !.q1 = Head(hs.q), !.q = Tail(hs.q),
                        !.front = Append(hs.front, Head(hs.q)),
                        !.nonDominatedCount = 0,
                        !.pc = HsAt(Tail(hs.q), 0)]
    /\ UNCHANGED <<treeVars, creatorVars, sel, jsf, ds, mv, co>>

\* one pass of the innermost loop: qj is compared with q1
HsCompare ==
    /\ hs.pc = "scan"
    /\ Len(hs.q) > hs.nonDominatedCount
    /\ LET qj == Head(hs.q)
           rest == Tail(hs.q)
           cmp == ParetoCompare(hs.pop[hs.q1 + 1], hs.pop[qj + 1])
       IN IF StaysInQueue(cmp)
          THEN hs' = [hs EXCEPT !.q = Append(rest, qj),
                                !.nonDominatedCount = hs.nonDominatedCount + 1,
                                !.pc = HsAt(Append(rest, qj), hs.nonDominatedCount + 1)]
          ELSE hs' = [hs EXCEPT !.q = rest,
                                !.dominated = Append(hs.dominated, qj),
                                !.pc = HsAt(rest, hs.nonDominatedCount)]
    /\ UNCHANGED <<treeVars, creatorVars, sel, jsf, ds, mv, co>>

\* the front is complete: the dominated ones become the queue of the next
\* front, the front is stored, the queue is sorted
HsCloseFront ==
    /\ hs.pc = "take"
    /\ hs.q = <<>>
    /\ LET q == StableSort(Requeue(hs.q, hs.dominated), hs.pop)
       IN hs' = [hs EXCEPT !.q = q, !.dominated = <<>>,
                           !.fronts = Append(hs.fronts, hs.front),
                           !.front = <<>>,
                           !.InnerOps = hs.InnerOps + 1,
                           !.pc = IF q = <<>> THEN "done" ELSE "take"]
    /\ UNCHANGED <<treeVars, creatorVars, sel, jsf, ds, mv, co>>

SorterInit ==
    /\ nodes = <<>> /\ phase = "off" /\ orig = <<>>
    /\ call = NoCall /\ cpc = "off" /\ loc = NoLocals /\ ctree = <<>>
    /\ sel = Idle /\ jsf = Idle /\ ds = Idle /\ mv = Idle /\ co = Idle
    /\ \E pop \in Populations :
         hs = [pop |-> pop, q |-> Iota(Len(pop)), dominated |-> <<>>,
               front |-> <<>>, fronts |-> <<>>, q1 |-> 0,
               nonDominatedCount |-> 0, InnerOps |-> 0, pc |-> "take"]

SorterNext == HsTake \/ HsCompare \/ HsCloseFront

SpecSorter == SorterInit /\ [][SorterNext]_vars

\* the call runs on: no step of it waits for anything
SpecSorterFair == SpecSorter /\ WF_vars(SorterNext)

\* the members of a front, the fronts a call has filled so far
Members(front) == { front[m] : m \in 1..Len(front) }

HsFronts == IF hs.front = <<>> THEN hs.fronts ELSE Append(hs.fronts, hs.front)

Dominates(pop, i, j) == ParetoCompare(pop[i + 1], pop[j + 1]) = "Left"

HsIsPartition ==
    LET n == Len(hs.pop)
        fronts == hs.fronts
    IN /\ \A i \in 0..(n - 1) :
            Cardinality({ km \in { <<k, m>> : k \in 1..Len(fronts), m \in 1..n } :
                            km[2] <= Len(fronts[km[1]]) /\ fronts[km[1]][km[2]] = i }) = 1
       /\ \A k \in 1..Len(fronts) : fronts[k] # <<>> /\ Members(fronts[k]) \subseteq 0..(n - 1)
       /\ Len(fronts) <= n

(***************************************************************************)
(* C11: for every non-empty population HierarchicalSorter::Sort terminates *)
(* and what it returns is a partition of the index set: every index        *)
(* 0..n-1 is in exactly one front, no front is empty, and there are at     *)
(* most n fronts.                                                          *)
(***************************************************************************)
C11_SortTerminatesWithPartition == <>[](hs.pc = "done" /\ HsIsPartition)

C11_Witness ==
    /\ hs.pc = "done"
    /\ Len(hs.pop) = MaxPop
    /\ Len(hs.fronts) = 2
    /\ \E k \in 1..2 : Len(hs.fronts[k]) = 2

(***************************************************************************)
(* C12: whatever the index order of the population (sorted by fitness or   *)
(* not), no member of a front is strictly dominated by another member of   *)
(* the same front.                                                         *)
(***************************************************************************)
C12_NoDominationWithinFront ==
    hs.pc # "off" =>
        \A k \in 1..Len(HsFronts) :
            \A i, j \in Members(HsFronts[k]) : ~Dominates(hs.pop, i, j)

C12_Witness ==
    /\ hs.pc = "done"
    /\ Len(hs.pop) = MaxPop
    /\ LexLess(hs.pop[2], hs.pop[1])
    /\ Dominates(hs.pop, 1, 0)
    /\ \E k \in 1..Len(hs.fronts) : Len(hs.fronts[k]) >= 2

(***************************************************************************)
(* C13: the fronts returned are the Pareto layering: every member of front *)
(* k+1 is strictly dominated by at least one member of front k.            *)
(***************************************************************************)
C13_ParetoLayering ==
    hs.pc = "done" =>
        \A k \in 1..(Len(hs.fronts) - 1) :
            \A j \in Members(hs.fronts[k + 1]) :
                \E i \in Members(hs.fronts[k]) : Dominates(hs.pop, i, j)

(***************************************************************************)
(* C14: for the population (1,4), (2,3), (3,2), (4,1), (2,2), in this      *)
(* index order, Sort returns exactly the two fronts {0,1,2,3} and {4}.     *)
(***************************************************************************)
C14_FivePointsFronts ==
    (hs.pc = "done" /\ hs.pop = FivePoints) =>
        /\ Len(hs.fronts) = 2
        /\ Members(hs.fronts[1]) = {0, 1, 2, 3} /\ Len(hs.fronts[1]) = 4
        /\ Members(hs.fronts[2]) = {4} /\ Len(hs.fronts[2]) = 1

C14_Witness == hs.pc = "done" /\ hs.pop = FivePoints /\ Len(hs.fronts) = 2

(***************************************************************************)
(* ProportionalSelector.  The population is given by the fitness values on *)
(* the selected objective (population[i][idx] is population[i + 1] here).  *)
(* Scalars are whole numbers; a draw u is kept in halves (u2 = 2u), so     *)
(* that draws between two prefix sums exist.  The member `fitness` is the  *)
(* array of pairs (first, second).                                         *)
(***************************************************************************)
MaxSelPop == 3

SelFitnessValues == {1, 2, 3}

SelPopulations == UNION { [1..n -> SelFitnessValues] : n \in 1..MaxSelPop }

\* operator< of std::pair
PairLess(a, b) == a.first < b.first \/ (a.first = b.first /\ a.second < b.second)

RECURSIVE MaxOf(_)
MaxOf(sq) == IF Len(sq) = 1 THEN sq[1] ELSE Max(sq[1], MaxOf(Tail(sq)))

\* lines 26-34: the pairs (vmax - f, i), in population order
Transformed(population) ==
    LET vmax == MaxOf(population)
    IN [k \in 1..Len(population) |-> [first |-> vmax - population[k], second |-> k - 1]]

SortPairsWrong(sq) == sq

\* std::sort of the pairs, which are pairwise distinct
RECURSIVE InsertPair(_, _)
InsertPair(sq, x) ==
    IF sq = <<>> THEN <<x>>
    ELSE IF PairLess(x, Head(sq)) THEN <<x>> \o sq
    ELSE <<Head(sq)>> \o InsertPair(Tail(sq), x)

RECURSIVE SortPairs(_)
SortPairs(sq) ==
    IF sq = <<>> THEN <<>>
    ELSE InsertPair(SortPairs(SubSeq(sq, 1, Len(sq) - 1)), sq[Len(sq)])

RECURSIVE ExclusiveScan(_, _)
ExclusiveScan(sq, acc) ==
    IF sq = <<>> THEN <<>>
    ELSE <<[first |-> acc, second |-> Head(sq).second]>>
         \o ExclusiveScan(Tail(sq), acc + Head(sq).first)

InclusiveScanWrong(sq) == ExclusiveScan(sq, 0)

\* std::inclusive_scan with (lhs.first + rhs.first, rhs.second)
RECURSIVE ScanFrom(_, _)
ScanFrom(sq, acc) ==
    IF sq = <<>> THEN <<>>
    ELSE <<[first |-> acc + Head(sq).first, second |-> Head(sq).second]>>
         \o ScanFrom(Tail(sq), acc + Head(sq).first)

InclusiveScan(sq) == ScanFrom(sq, 0)

\* ProportionalSelector::Prepare()
Prepared(population) == InclusiveScan(SortPairs(Transformed(population)))

\* the entries the search may stop at for the draw u2 (in halves): with
\* upper_bound the first entry greater than the value
UpperBoundAt(fitness, u2) ==
    { k \in 1..Len(fitness) :
        /\ 2 * fitness[k].first > u2
        /\ \A m \in 1..(k - 1) : ~(2 * fitness[m].first > u2) }

\* std::lower_bound for the value (u, 0): the first entry that is not less
\* than it
LowerBoundAt(fitness, u2) ==
    { k \in 1..Len(fitness) :
        /\ ~(2 * fitness[k].first < u2 \/ (2 * fitness[k].first = u2 /\ fitness[k].second < 0))
        /\ \A m \in 1..(k - 1) :
              2 * fitness[m].first < u2 \/ (2 * fitness[m].first = u2 /\ fitness[m].second < 0) }

\* the draws of uniformReal(0, fitness.back().first - epsilon), in halves
Draws(fitness) == { u2 \in 0..(2 * fitness[Len(fitness)].first) : u2 < 2 * fitness[Len(fitness)].first }

\* Prepare(pop): the array is cleared and built from the population
SelPrepare ==
    /\ sel.pc \in {"new", "prepared"}
    /\ sel.prepares < 2
    /\ sel' = [sel EXCEPT !.before = sel.fitness,
                          !.fitness = Prepared(sel.population),
                          !.prepares = sel.prepares + 1,
                          !.pc = "prepared"]
    /\ UNCHANGED <<treeVars, creatorVars, hs, jsf, ds, mv, co>>

\* operator()(random): one draw, one search.  With a total of 0 the bounds
\* of the distribution are out of order and the draw is undefined.
SelSelect ==
    /\ sel.pc = "prepared"
    /\ IF Draws(sel.fitness) = {}
       THEN \E i \in 0..(Len(sel.population) - 1) :
              sel' = [sel EXCEPT !.u2 = 0, !.result = i, !.pc = "undefined"]
       ELSE \E u2 \in Draws(sel.fitness) :
              \E k \in LowerBoundAt(sel.fitness, u2) :
                 sel' = [sel EXCEPT !.u2 = u2, !.result = sel.fitness[k].second,
                                    !.pc = "selected"]
    /\ UNCHANGED <<treeVars, creatorVars, hs, jsf, ds, mv, co>>

SelectorInit ==
    /\ nodes = <<>> /\ phase = "off" /\ orig = <<>>
    /\ call = NoCall /\ cpc = "off" /\ loc = NoLocals /\ ctree = <<>>
    /\ hs = Idle /\ jsf = Idle /\ ds = Idle /\ mv = Idle /\ co = Idle
    /\ \E population \in SelPopulations :
         sel = [population |-> population, fitness |-> <<>>, before |-> <<>>,
                prepares |-> 0, u2 |-> 0, result |-> 0, pc |-> "new"]

SelectorNext == SelPrepare \/ SelSelect

SpecSelector == SelectorInit /\ [][SelectorNext]_vars

\* what the claims about the selector speak of
SelWeight(i) == MaxOf(sel.population) - sel.population[i + 1]

SelFirsts == [k \in 1..Len(sel.fitness) |-> sel.fitness[k].first]

RECURSIVE SumWeights(_)
SumWeights(ks) ==
    IF ks = <<>> THEN 0 ELSE SelWeight(Head(ks).second) + SumWeights(Tail(ks))

\* position of the entry of individual i in the stored array
SelPos(i) == CHOOSE k \in 1..Len(sel.fitness) : sel.fitness[k].second = i

(***************************************************************************)
(* C15: after Prepare the stored array has one entry per individual,       *)
(* ordered by ascending (v_max - f_i, i); the first components are the     *)
(* inclusive prefix sums of v_max - f_i in that order, so they are         *)
(* non-decreasing and the last one is the sum of all weights; a second     *)
(* Prepare on the same population yields the same array.                   *)
(***************************************************************************)
C15_PrepareBuildsPrefixSums ==
    sel.pc \in {"prepared", "selected", "undefined"} =>
        LET n == Len(sel.population)
            f == sel.fitness
        IN /\ Len(f) = n
           /\ { f[k].second : k \in 1..n } = 0..(n - 1)
           /\ \A k \in 1..(n - 1) :
                 PairLess([first |-> SelWeight(f[k].second), second |-> f[k].second],
                          [first |-> SelWeight(f[k + 1].second), second |-> f[k + 1].second])
           /\ \A k \in 1..n : f[k].first = SumWeights(SubSeq(f, 1, k))
           /\ \A k \in 1..(n - 1) : f[k].first <= f[k + 1].first
           /\ f[n].first = SumWeights(Transformed(sel.population))
           /\ sel.prepares = 2 => sel.before = f

C15_Witness ==
    /\ sel.pc = "prepared"
    /\ sel.prepares = 2
    /\ Len(sel.population) = MaxSelPop
    /\ sel.population[1] < sel.population[2]
    /\ sel.population[3] < sel.population[2]

(***************************************************************************)
(* C16 as stated: for fitness [1, 2, 3] the prefix-sum array after Prepare *)
(* is [2, 3, 3]; the draw u = 0.5 returns index 2, the draw u = 2.5        *)
(* returns index 1.                                                        *)
(***************************************************************************)
C16_ExampleAsStated ==
    (sel.pc \in {"prepared", "selected"} /\ sel.population = <<1, 2, 3>>) =>
        /\ SelFirsts = <<2, 3, 3>>
        /\ (sel.pc = "selected" /\ sel.u2 = 1) => sel.result = 2
        /\ (sel.pc = "selected" /\ sel.u2 = 5) => sel.result = 1

(***************************************************************************)
(* C16, amended: for fitness [1, 2, 3] the prefix-sum array after Prepare  *)
(* is [0, 1, 3] (entries of the individuals 2, 1, 0); the draw u = 0.5     *)
(* returns index 1, the draw u = 2.5 returns index 0.                      *)
(***************************************************************************)
C16_ExampleAsComputed ==
    (sel.pc \in {"prepared", "selected"} /\ sel.population = <<1, 2, 3>>) =>
        /\ SelFirsts = <<0, 1, 3>>
        /\ (sel.pc = "selected" /\ sel.u2 = 1) => sel.result = 1
        /\ (sel.pc = "selected" /\ sel.u2 = 5) => sel.result = 0

C16_Witness ==
    sel.pc = "selected" /\ sel.population = <<1, 2, 3>> /\ sel.u2 = 5 /\ sel.result = 0

\* the entry returned is the first one whose prefix sum is >= u
SelReturnsFirstAtLeast ==
    LET k == SelPos(sel.result)
    IN /\ 2 * sel.fitness[k].first >= sel.u2
       /\ \A m \in 1..(k - 1) : 2 * sel.fitness[m].first < sel.u2

\* the draw lies in the interval of width v_max - f_i that ends at the
\* prefix sum of the individual returned
SelDrawInInterval ==
    LET k == SelPos(sel.result)
    IN /\ 2 * (sel.fitness[k].first - SelWeight(sel.result)) < sel.u2
       /\ sel.u2 <= 2 * sel.fitness[k].first

(***************************************************************************)
(* C17 as stated: select returns the index stored in the first entry whose *)
(* prefix sum is >= u; individual i is returned exactly for an interval of *)
(* draws of width v_max - f_i, and an individual of maximal fitness        *)
(* (weight 0) is returned for no draw, u = 0 included.                     *)
(***************************************************************************)
C17_SelectAsStated ==
    sel.pc = "selected" =>
        /\ SelReturnsFirstAtLeast
        /\ SelDrawInInterval
        /\ SelWeight(sel.result) > 0

(***************************************************************************)
(* C17, amended: select returns the index stored in the first entry whose  *)
(* prefix sum is >= u; for u > 0 the draw lies in the interval of width    *)
(* v_max - f_i below the prefix sum of the individual i returned, so an    *)
(* individual of weight 0 is not returned; the draw u = 0 returns the      *)
(* first entry of the array, which is the individual of maximal fitness    *)
(* with the smallest index.                                                *)
(***************************************************************************)
C17_SelectFirstAtLeast ==
    sel.pc = "selected" =>
        /\ SelReturnsFirstAtLeast
        /\ sel.u2 > 0 => (SelDrawInInterval /\ SelWeight(sel.result) > 0)
        /\ sel.u2 = 0 =>
              /\ SelPos(sel.result) = 1
              /\ SelWeight(sel.result) = 0
              /\ \A i \in 0..(Len(sel.population) - 1) :
                    SelWeight(i) = 0 => sel.result <= i

C17_Witness ==
    /\ sel.pc = "selected"
    /\ sel.u2 = 0
    /\ sel.population = <<3, 1, 3>>
    /\ sel.result = 0

(***************************************************************************)
(* JsfRand<N> (random/jsf.hpp).  A word of N bits is the sequence of its   *)
(* bits, the least significant one first; uint32_t and uint64_t arithmetic *)
(* is arithmetic on these bits with the carry out of bit N dropped.        *)
(***************************************************************************)
MaxOutputs == 3

WordSizes == {32, 64}

Warmup == 20

\* seeds as the two 16-bit halves (low, high) of a 32-bit value:
\* 0, 1, the default 0xdeadbeef, 0xffffffff
SeedHalves == { <<0, 0>>, <<1, 0>>, <<48879, 57005>>, <<65535, 65535>> }

\* 0xf1ea5eed, low half first
InitialA == <<24301, 61930>>

\* bit i (1 = least significant) of the number with the given 16-bit halves
RECURSIVE Pow2(_)
Pow2(k) == IF k = 0 THEN 1 ELSE 2 * Pow2(k - 1)

HalfBit(h, i) == (h \div Pow2(i - 1)) % 2

\* the bits b[1..N] as a word
Bits(N, b) == SubSeq(b, 1, N)

\* the N-bit word of a 32-bit value; for N = 64 the upper bits are zero
Word(N, halves) ==
    Bits(N, [i \in 1..N |-> IF i <= 16 THEN HalfBit(halves[1], i)
                            ELSE IF i <= 32 THEN HalfBit(halves[2], i - 16)
                            ELSE 0])

\* x << k and x >> k on a word of N bits
Shl(N, x, k) == Bits(N, [i \in 1..N |-> IF i > k THEN x[i - k] ELSE 0])

Shr(N, x, k) == Bits(N, [i \in 1..N |-> IF i + k <= N THEN x[i + k] ELSE 0])

BitOr(N, x, y) == Bits(N, [i \in 1..N |-> IF x[i] = 1 \/ y[i] = 1 THEN 1 ELSE 0])

BitXor(N, x, y) == Bits(N, [i \in 1..N |-> (x[i] + y[i]) % 2])

BitNot(N, x) == Bits(N, [i \in 1..N |-> 1 - x[i]])

\* x + y + carry from bit i on, modulo 2^N
RECURSIVE AddFrom(_, _, _, _, _)
AddFrom(N, x, y, i, carry) ==
    IF i > N THEN <<>>
    ELSE LET t == x[i] + y[i] + carry
         IN <<t % 2>> \o AddFrom(N, x, y, i + 1, t \div 2)

WordAdd(N, x, y) == AddFrom(N, x, y, 1, 0)

\* x - y = x + ~y + 1 modulo 2^N
WordSub(N, x, y) == AddFrom(N, x, BitNot(N, y), 1, 1)

\* rotl<N>(x, k): (x << k) | (x >> (N - k))
rotl(N, x, k) == BitOr(N, Shl(N, x, k), Shr(N, x, N - k))

prng32Wrong(N, g) ==
    LET e == WordSub(N, g.a, rotl(N, g.b, 27))
        a == BitXor(N, g.b, rotl(N, g.c, 7))
    IN [a |-> a, b |-> WordAdd(N, g.c, g.d), c |-> WordAdd(N, g.d, e),
        d |-> WordAdd(N, e, a)]

\* prng32(): the state after the call; the value returned is its d
prng32(N, g) ==
    LET e == WordSub(N, g.a, rotl(N, g.b, 27))
        a == BitXor(N, g.b, rotl(N, g.c, 17))
    IN [a |-> a, b |-> WordAdd(N, g.c, g.d), c |-> WordAdd(N, g.d, e),
        d |-> WordAdd(N, e, a)]

\* prng64()
prng64(N, g) ==
    LET e == WordSub(N, g.a, rotl(N, g.b, 7))
        a == BitXor(N, g.b, rotl(N, g.c, 13))
    IN [a |-> a, b |-> WordAdd(N, g.c, rotl(N, g.d, 37)), c |-> WordAdd(N, g.d, e),
        d |-> WordAdd(N, e, a)]

\* operator()(): if constexpr (N == 32) return prng32(); return prng64();
JsfCall(N, g) == IF N = 32 THEN prng32(N, g) ELSE prng64(N, g)

RECURSIVE JsfCalls(_, _, _)
JsfCalls(N, g, k) ==
    IF k = 0 THEN g
    ELSE LET h == JsfCall(N, g)
         IN IF h = h THEN JsfCalls(N, h, k - 1) ELSE g  \* h is computed first

\* JsfRand(seed): a = 0xf1ea5eed, b = c = d = seed, then 20 calls
JsfRand(N, seed) ==
    JsfCalls(N, [a |-> Word(N, InitialA), b |-> Word(N, seed),
                 c |-> Word(N, seed), d |-> Word(N, seed)], Warmup)

\* a generator is constructed from the seed of the run
JsfConstruct ==
    /\ jsf.pc = "run"
    /\ \E g \in DOMAIN jsf.gen :
         /\ ~jsf.gen[g].built
         /\ jsf' = [jsf EXCEPT !.gen[g] = [built |-> TRUE,
                                           state |-> JsfRand(jsf.N, jsf.seed),
                                           out |-> <<>>]]
    /\ UNCHANGED <<treeVars, creatorVars, hs, sel, ds, mv, co>>

\* one call of operator() on a constructed generator
JsfNext ==
    /\ jsf.pc = "run"
    /\ \E g \in DOMAIN jsf.gen :
         /\ jsf.gen[g].built
         /\ Len(jsf.gen[g].out) < MaxOutputs
         /\ LET st == JsfCall(jsf.N, jsf.gen[g].state)
            IN jsf' = [jsf EXCEPT !.gen[g] = [built |-> TRUE, state |-> st,
                                              out |-> Append(jsf.gen[g].out, st.d)]]
    /\ UNCHANGED <<treeVars, creatorVars, hs, sel, ds, mv, co>>

RngInit ==
    /\ nodes = <<>> /\ phase = "off" /\ orig = <<>>
    /\ call = NoCall /\ cpc = "off" /\ loc = NoLocals /\ ctree = <<>>
    /\ hs = Idle /\ sel = Idle /\ ds = Idle /\ mv = Idle /\ co = Idle
    /\ \E N \in WordSizes, seed \in SeedHalves :
         jsf = [N |-> N, seed |-> seed, pc |-> "run",
                gen |-> [g \in {1, 2} |-> [built |-> FALSE, state |-> <<>>, out |-> <<>>]]]

RngNext == JsfConstruct \/ JsfNext

SpecRng == RngInit /\ [][RngNext]_vars

(***************************************************************************)
(* The Jenkins small-fast recurrence as arithmetic modulo 2^N, on numbers  *)
(* written in base 2^16 (N/16 digits, the least significant one first).    *)
(* A rotation by k is a multiplication by 2^k whose overflow re-enters at  *)
(* the low end.                                                            *)
(***************************************************************************)
RefDigits(N) == N \div 16

RefWord(N, halves) == [i \in 1..RefDigits(N) |-> IF i <= 2 THEN halves[i] ELSE 0]

RECURSIVE RefAddFrom(_, _, _, _, _)
RefAddFrom(N, x, y, i, carry) ==
    IF i > RefDigits(N) THEN <<>>
    ELSE LET t == x[i] + y[i] + carry
         IN <<t % Pow2(16)>> \o RefAddFrom(N, x, y, i + 1, t \div Pow2(16))

RefAdd(N, x, y) == RefAddFrom(N, x, y, 1, 0)

\* x - y modulo 2^N is x + (2^N - 1 - y) + 1
RefSub(N, x, y) ==
    RefAddFrom(N, x, [i \in 1..RefDigits(N) |-> Pow2(16) - 1 - y[i]], 1, 1)

RECURSIVE XorInt(_, _)
XorInt(a, b) ==
    IF a = 0 /\ b = 0 THEN 0
    ELSE ((a + b) % 2) + 2 * XorInt(a \div 2, b \div 2)

RefXor(N, x, y) == SubSeq([i \in 1..RefDigits(N) |-> XorInt(x[i], y[i])], 1, RefDigits(N))

RefRot(N, x, k) ==
    LET L == RefDigits(N)
        q == k \div 16
        r == k % 16
        at(i) == x[((i - 1 - q + 2 * L) % L) + 1]
    IN SubSeq([i \in 1..L |-> ((at(i) * Pow2(r)) % Pow2(16)) + (at(i - 1) \div Pow2(16 - r))],
              1, L)

RefStep(N, s) ==
    IF N = 32
    THEN LET e == RefSub(N, s.a, RefRot(N, s.b, 27))
             a == RefXor(N, s.b, RefRot(N, s.c, 17))
         IN [a |-> a, b |-> RefAdd(N, s.c, s.d), c |-> RefAdd(N, s.d, e),
             d |-> RefAdd(N, e, a)]
    ELSE LET e == RefSub(N, s.a, RefRot(N, s.b, 7))
             a == RefXor(N, s.b, RefRot(N, s.c, 13))
         IN [a |-> a, b |-> RefAdd(N, s.c, RefRot(N, s.d, 37)), c |-> RefAdd(N, s.d, e),
             d |-> RefAdd(N, e, a)]

RECURSIVE RefSteps(_, _, _)
RefSteps(N, s, k) ==
    IF k = 0 THEN s
    ELSE LET t == RefStep(N, s)
         IN IF t = t THEN RefSteps(N, t, k - 1) ELSE s

\* the k-th d-value of the recurrence started from (0xf1ea5eed, s, s, s)
RefValue(N, seed, k) ==
    RefSteps(N, [a |-> RefWord(N, InitialA), b |-> RefWord(N, seed),
                 c |-> RefWord(N, seed), d |-> RefWord(N, seed)], k).d

\* the number a word of bits stands for, in base 2^16
RECURSIVE BitsValue(_, _, _)
BitsValue(x, from, n) ==
    IF n = 0 THEN 0 ELSE x[from] + 2 * BitsValue(x, from + 1, n - 1)

ToDigits(N, x) ==
    SubSeq([i \in 1..RefDigits(N) |-> BitsValue(x, 16 * (i - 1) + 1, 16)], 1, RefDigits(N))

MaxDsCalls == 2

MaxScalings == 1

DefaultNames == <<"X1", "X2">>

UserNames == {"a", "b", "X2"}

\* Hasher<XXHash> on the names in use: in order, in reverse order, and
\* with names that collide
Hashers ==
    { [X1 |-> 1, X2 |-> 2, a |-> 3, b |-> 4],
      [X1 |-> 4, X2 |-> 3, a |-> 2, b |-> 1],
      [X1 |-> 1, X2 |-> 1, a |-> 2, b |-> 2],
      [X1 |-> 2, X2 |-> 3, a |-> 2, b |-> 1] }

HashRange == 1..4

\* the matrices a dataset is built from: two rows, one or two columns
Matrices ==
    { << <<1>>, <<2>> >>, << <<1, 2>>, <<2, 2>> >>, << <<2, 1>>, <<1, 1>> >> }

RECURSIVE Gcd(_, _)
Gcd(a, b) == IF b = 0 THEN a ELSE Gcd(b, a % b)

Abs(x) == IF x < 0 THEN 0 - x ELSE x

NotFinite == [n |-> 0, d |-> 0]

IsFinite(x) == x.d # 0

Frac(n, d) ==
    IF d = 0 THEN NotFinite
    ELSE LET g == Gcd(Abs(n), Abs(d))
             sgn == IF d < 0 THEN 0 - 1 ELSE 1
         IN [n |-> sgn * (n \div g), d |-> sgn * (d \div g)]

FracAdd(x, y) == Frac(x.n * y.d + y.n * x.d, x.d * y.d)

FracSub(x, y) == Frac(x.n * y.d - y.n * x.d, x.d * y.d)

FracMul(x, y) == Frac(x.n * y.n, x.d * y.d)

FracDiv(x, y) == Frac(x.n * y.d, x.d * y.n)

FracLess(x, y) == x.n * y.d < y.n * x.d

RECURSIVE FracSum(_)
FracSum(xs) == IF xs = <<>> THEN Frac(0, 1) ELSE FracAdd(Head(xs), FracSum(Tail(xs)))

RECURSIVE MinCoeff(_)
MinCoeff(xs) ==
    IF Len(xs) = 1 THEN xs[1]
    ELSE LET m == MinCoeff(Tail(xs)) IN IF FracLess(xs[1], m) THEN xs[1] ELSE m

RECURSIVE MaxCoeff(_)
MaxCoeff(xs) ==
    IF Len(xs) = 1 THEN xs[1]
    ELSE LET m == MaxCoeff(Tail(xs)) IN IF FracLess(m, xs[1]) THEN xs[1] ELSE m

Cols(data) == Len(data[1])

\* values.col(j).segment(start, size), start counted from 0
Segment(data, j, start, size) == [k \in 1..size |-> data[start + k][j]]

\* values.col(j) = col
SetColumn(data, j, col) ==
    [r \in 1..Len(data) |-> [c \in 1..Cols(data) |-> IF c = j THEN col[r] ELSE data[r][c]]]

AllFinite(xs) == \A k \in 1..Len(xs) : IsFinite(xs[k])

\* (x - shift) / scale; a value scaled by values that are not finite is
\* not finite
Scaled(x, ok, shift, scale) ==
    IF ok /\ IsFinite(x) THEN FracDiv(FracSub(x, shift), scale) ELSE NotFinite

\* Normalize: (col - min) / (max - min), min and max over the segment
Normalized(data, j, start, size) ==
    LET seg == Segment(data, j, start, size)
        ok == AllFinite(seg)
        min == IF ok THEN MinCoeff(seg) ELSE NotFinite
        max == IF ok THEN MaxCoeff(seg) ELSE NotFinite
    IN SetColumn(data, j, [r \in 1..Len(data) |->
                              Scaled(data[r][j], ok, min, FracSub(max, min))])

\* Standardize: mean and variance of the segment (univariate::accumulate,
\* the variance over n), stddev = variance * variance,
\* (col - mean) / stddev
Standardized(data, j, start, size) ==
    LET seg == Segment(data, j, start, size)
        ok == AllFinite(seg)
        mean == IF ok THEN FracDiv(FracSum(seg), Frac(size, 1)) ELSE NotFinite
        dev2 == [k \in 1..size |-> FracMul(FracSub(seg[k], mean), FracSub(seg[k], mean))]
        variance == IF ok THEN FracDiv(FracSum(dev2), Frac(size, 1)) ELSE NotFinite
        stddev == FracMul(variance, variance)
    IN SetColumn(data, j, [r \in 1..Len(data) |-> Scaled(data[r][j], ok, mean, stddev)])

\* perm * values: row r of the result is row perm[r]
Permuted(data, perm) == [r \in 1..Len(data) |-> data[perm[r]]]

IndexPermutations(n) == { f \in [1..n -> 1..n] : \A a, b \in 1..n : f[a] = f[b] => a = b }

\* the ranges that satisfy EXPECT(range.Start() + range.Size() <= rows)
Ranges(rows) == { se \in (0..(rows - 1)) \X (1..rows) : se[1] + se[2] <= rows }

HashSortedWrong(vs) == {vs}

\* std::sort by Hash: every order it may leave variables of equal hash in
HashSorted(vs) ==
    { [k \in 1..Len(vs) |-> vs[o[k]]] : o \in
        { f \in IndexPermutations(Len(vs)) :
            \A k \in 1..(Len(vs) - 1) : ~(vs[f[k + 1]].Hash < vs[f[k]].Hash) } }

\* Variable { name, hash, index }
Variable(name, hash, index) == [Name |-> name, Hash |-> hash[name], Index |-> index]

\* defaultVariables(count): X1 .. Xcount, sorted by hash
defaultVariables(count, hash) ==
    HashSorted([i \in 1..count |-> Variable(DefaultNames[i], hash, i - 1)])

IsViewWrong(d) == FALSE

\* Dataset::IsView (core/dataset.hpp is not part of the sources at hand)
IsView(d) == d.view

\* std::partition_point by v.Hash < hashValue: the first position whose
\* hash is not less, Len + 1 for end()
PartitionPoint(vs, h) ==
    CHOOSE k \in 1..(Len(vs) + 1) :
        /\ \A m \in 1..(k - 1) : vs[m].Hash < h
        /\ k <= Len(vs) => ~(vs[k].Hash < h)

\* GetVariable(hashValue): the optional as a sequence of length 0 or 1
GetVariable(vs, h) ==
    LET it == PartitionPoint(vs, h)
    IN IF it # Len(vs) + 1 /\ vs[it].Hash = h THEN <<vs[it]>> ELSE <<>>

\* what every call leaves behind: the call made, its outcome and the
\* variables and data it started from
DsAfter(op, arg, outcome, variables, data, names, found) ==
    [ds EXCEPT !.last = [op |-> op, arg |-> arg, outcome |-> outcome],
               !.before = [variables |-> ds.variables, data |-> ds.data],
               !.variables = variables, !.data = data, !.names = names,
               !.found = found, !.calls = ds.calls + 1,
               !.scalings = IF op \in {"Normalize", "Standardize"} /\ outcome = "ok"
                            THEN ds.scalings + 1 ELSE ds.scalings]

DsThrow(op, arg) ==
    ds' = DsAfter(op, arg, "error", ds.variables, ds.data, ds.names, <<>>)

\* the name vectors passed to SetVariableNames
NameVectors == UNION { [1..n -> UserNames] : n \in 1..(Len(DefaultNames) + 1) }

\* the loop of SetVariableNames: variables[i] = Variable { names[i], h, i }
Renamed(names, hash) == [i \in 1..Len(names) |-> Variable(names[i], hash, i - 1)]

DsSetVariableNames ==
    /\ ds.pc = "live"
    /\ ds.calls < MaxDsCalls
    /\ \E names \in NameVectors :
         IF Len(names) # Cols(ds.data)
         THEN DsThrow("SetVariableNames", Len(names))
         ELSE \E vs \in HashSorted(Renamed(names, ds.hash)) :
                ds' = DsAfter("SetVariableNames", Len(names), "ok", vs, ds.data, names, <<>>)
    /\ UNCHANGED <<treeVars, creatorVars, hs, sel, jsf, mv, co>>

DsGetVariable ==
    /\ ds.pc = "live"
    /\ ds.calls < MaxDsCalls
    /\ \E h \in HashRange :
         ds' = DsAfter("GetVariable", h, "ok", ds.variables, ds.data, ds.names,
                       GetVariable(ds.variables, h))
    /\ UNCHANGED <<treeVars, creatorVars, hs, sel, jsf, mv, co>>

DsShuffle ==
    /\ ds.pc = "live"
    /\ ds.calls < MaxDsCalls
    /\ IF IsView(ds) THEN DsThrow("Shuffle", 0)
       ELSE \E perm \in IndexPermutations(Len(ds.data)) :
              ds' = DsAfter("Shuffle", 0, "ok", ds.variables, Permuted(ds.data, perm),
                            ds.names, <<>>)
    /\ UNCHANGED <<treeVars, creatorVars, hs, sel, jsf, mv, co>>

DsNormalize ==
    /\ ds.pc = "live"
    /\ ds.calls < MaxDsCalls
    /\ IsView(ds) \/ ds.scalings < MaxScalings
    /\ \E i \in 0..(Cols(ds.data) - 1), range \in Ranges(Len(ds.data)) :
         IF IsView(ds) THEN DsThrow("Normalize", i)
         ELSE ds' = DsAfter("Normalize", i, "ok", ds.variables,
                            Normalized(ds.data, i + 1, range[1], range[2]), ds.names, <<>>)
    /\ UNCHANGED <<treeVars, creatorVars, hs, sel, jsf, mv, co>>

DsStandardize ==
    /\ ds.pc = "live"
    /\ ds.calls < MaxDsCalls
    /\ IsView(ds) \/ ds.scalings < MaxScalings
    /\ \E i \in 0..(Cols(ds.data) - 1), range \in Ranges(Len(ds.data)) :
         IF IsView(ds) THEN DsThrow("Standardize", i)
         ELSE ds' = DsAfter("Standardize", i, "ok", ds.variables,
                            Standardized(ds.data, i + 1, range[1], range[2]), ds.names, <<>>)
    /\ UNCHANGED <<treeVars, creatorVars, hs, sel, jsf, mv, co>>

\* Dataset(Matrix const&) owns a copy of the matrix, Dataset(Eigen::Ref)
\* is a view of it; both start with the default variables
DatasetInit ==
    /\ nodes = <<>> /\ phase = "off" /\ orig = <<>>
    /\ call = NoCall /\ cpc = "off" /\ loc = NoLocals /\ ctree = <<>>
    /\ hs = Idle /\ sel = Idle /\ jsf = Idle /\ mv = Idle /\ co = Idle
    /\ \E m \in Matrices, hash \in Hashers, view \in BOOLEAN :
         \E vs \in defaultVariables(Len(m[1]), hash) :
            ds = [pc |-> "live", hash |-> hash, view |-> view,
                  data |-> [r \in 1..Len(m) |-> [c \in 1..Len(m[1]) |-> Frac(m[r][c], 1)]],
                  variables |-> vs,
                  names |-> SubSeq(DefaultNames, 1, Len(m[1])),
                  last |-> [op |-> "Dataset", arg |-> Len(m[1]), outcome |-> "ok"],
                  before |-> [variables |-> <<>>, data |-> <<>>],
                  found |-> <<>>, calls |-> 0, scalings |-> 0]

DatasetNext ==
    DsSetVariableNames \/ DsGetVariable \/ DsShuffle \/ DsNormalize \/ DsStandardize

SpecDataset == DatasetInit /\ [][DatasetNext]_vars

(***************************************************************************)
(* C19: after construction and after every successful SetVariableNames     *)
(* there is one variable per column, the variables are sorted ascending by *)
(* Hash, and the Index of each is the column position its name was given   *)
(* at; GetVariable(h) returns a variable with hash h when there is one and *)
(* nothing otherwise.                                                      *)
(***************************************************************************)
C19_VariablesSortedByHash ==
    ds.pc = "live" =>
        LET vs == ds.variables
            n == Cols(ds.data)
        IN /\ Len(vs) = n
           /\ \A k \in 1..(n - 1) : vs[k].Hash <= vs[k + 1].Hash
           /\ { vs[k].Index : k \in 1..n } = 0..(n - 1)
           /\ \A k \in 1..n :
                 /\ vs[k].Name = ds.names[vs[k].Index + 1]
                 /\ vs[k].Hash = ds.hash[vs[k].Name]
           /\ ds.last.op = "GetVariable" =>
                 IF \E k \in 1..n : vs[k].Hash = ds.last.arg
                 THEN /\ Len(ds.found) = 1
                      /\ ds.found[1].Hash = ds.last.arg
                      /\ \E k \in 1..n : vs[k] = ds.found[1]
                 ELSE ds.found = <<>>

C19_Witness ==
    /\ ds.pc = "live"
    /\ ds.names = <<"b", "a">>
    /\ ds.hash["a"] < ds.hash["b"]
    /\ ds.variables[1].Index = 1
    /\ ds.last.op = "GetVariable"
    /\ Len(ds.found) = 1 /\ ds.found[1].Name = "b"

(***************************************************************************)
(* C20: on a dataset in view mode Shuffle, Normalize and Standardize fail  *)
(* with an error and leave the variables and every matrix value as they    *)
(* were; SetVariableNames with a number of names other than the number of  *)
(* columns fails as well and leaves the variables as they were.            *)
(***************************************************************************)
C20_ViewAndNameCountErrors ==
    ds.pc = "live" =>
        /\ (ds.view /\ ds.last.op \in {"Shuffle", "Normalize", "Standardize"}) =>
              /\ ds.last.outcome = "error"
              /\ ds.variables = ds.before.variables
              /\ ds.data = ds.before.data
        /\ (ds.last.op = "SetVariableNames" /\ ds.last.arg # Cols(ds.data)) =>
              /\ ds.last.outcome = "error"
              /\ ds.variables = ds.before.variables
              /\ ds.data = ds.before.data

C20_Witness ==
    /\ ds.pc = "live"
    /\ ds.view
    /\ ds.names = <<"b", "a">>
    /\ ds.last.op = "Normalize"
    /\ ds.last.outcome = "error"
    /\ ds.data = ds.before.data

(***************************************************************************)
(* MeanVarianceCalculator (stat/meanvariance.hpp).  The members n, sum and *)
(* m2 are modelled in exact arithmetic as fractions; a division by zero    *)
(* gives NotFinite, which every later operation propagates, as a NaN does. *)
(* Three accumulators are filled by scalar Add calls and then combined in  *)
(* both groupings.                                                         *)
(***************************************************************************)
MaxSamples == 3

SampleValues == {1, 2, 4}

MeanVarianceCalculator == [m2 |-> Frac(0, 1), sum |-> Frac(0, 1), n |-> Frac(0, 1)]

Add(acc, val) ==
    IF ~FracLess(Frac(0, 1), acc.n)
    THEN [m2 |-> Frac(0, 1), sum |-> val, n |-> Frac(1, 1)]
    ELSE LET tmp  == FracSub(FracMul(acc.n, val), acc.sum)
             oldn == acc.n
             n    == FracAdd(acc.n, Frac(1, 1))
         IN [m2  |-> FracAdd(acc.m2, FracDiv(FracMul(tmp, tmp), FracMul(n, oldn))),
             sum |-> FracAdd(acc.sum, val),
             n   |-> n]

Combine(acc, other) ==
    LET on   == other.n
        osum == other.sum
        tmp  == FracSub(FracMul(acc.n, osum), FracMul(acc.sum, on))
        oldn == acc.n
        n    == FracAdd(acc.n, on)
    IN [m2  |-> FracAdd(acc.m2, FracAdd(other.m2,
                   FracDiv(FracMul(tmp, tmp), FracMul(FracMul(on, n), oldn)))),
        sum |-> FracAdd(acc.sum, osum),
        n   |-> n]

RECURSIVE AddAll(_, _)
AddAll(acc, vals) ==
    IF vals = <<>> THEN acc ELSE AddAll(Add(acc, Frac(Head(vals), 1)), Tail(vals))

MvAdd ==
    /\ mv.pc = "build"
    /\ Len(mv.samples[1]) + Len(mv.samples[2]) + Len(mv.samples[3]) < MaxSamples
    /\ \E i \in 1..3, val \in SampleValues :
          mv' = [mv EXCEPT !.acc[i]     = Add(@, Frac(val, 1)),
                           !.samples[i] = Append(@, val)]
    /\ UNCHANGED <<treeVars, creatorVars, hs, sel, jsf, ds, co>>

MvCombine ==
    /\ mv.pc = "build"
    /\ mv' = [mv EXCEPT
                !.pc    = "combined",
                !.left  = Combine(Combine(mv.acc[1], mv.acc[2]), mv.acc[3]),
                !.right = Combine(mv.acc[1], Combine(mv.acc[2], mv.acc[3])),
                !.all   = AddAll(MeanVarianceCalculator,
                                 mv.samples[1] \o mv.samples[2] \o mv.samples[3])]
    /\ UNCHANGED <<treeVars, creatorVars, hs, sel, jsf, ds, co>>

StatsInit ==
    /\ nodes = <<>> /\ phase = "off" /\ orig = <<>>
    /\ call = NoCall /\ cpc = "off" /\ loc = NoLocals /\ ctree = <<>>
    /\ hs = Idle /\ sel = Idle /\ jsf = Idle /\ ds = Idle /\ co = Idle
    /\ mv = [pc      |-> "build",
             acc     |-> <<MeanVarianceCalculator, MeanVarianceCalculator,
                           MeanVarianceCalculator>>,
             samples |-> <<<<>>, <<>>, <<>>>>,
             left    |-> MeanVarianceCalculator,
             right   |-> MeanVarianceCalculator,
             all     |-> MeanVarianceCalculator]

StatsNext == MvAdd \/ MvCombine

SpecStats == StatsInit /\ [][StatsNext]_vars

(***************************************************************************)
(* C21: Combine is associative in exact arithmetic: for three accumulators *)
(* built by scalar Add calls from zero or more samples each, (A with B)    *)
(* with C and A with (B with C) give the same n, sum and m2, and both      *)
(* equal the accumulator that received all the samples one by one.         *)
(***************************************************************************)
C21_CombineAssociative ==
    mv.pc = "combined" => mv.left = mv.right /\ mv.left = mv.all

\* The same statement for accumulators that all hold at least one sample.
C21_NonEmptyCombineAssociative ==
    (mv.pc = "combined" /\ \A i \in 1..3 : mv.samples[i] # <<>>) =>
        mv.left = mv.right /\ mv.left = mv.all

\* An empty accumulator combined with one sample: m2 is 0/0.
C21_EmptyCombineNotFinite ==
    /\ mv.pc = "combined"
    /\ mv.samples = <<<<>>, <<1>>, <<>>>>
    /\ mv.all = [m2 |-> Frac(0, 1), sum |-> Frac(1, 1), n |-> Frac(1, 1)]
    /\ ~IsFinite(mv.left.m2)
    /\ ~IsFinite(mv.right.m2)

(***************************************************************************)
(* The tree operations on an arbitrary node vector.  Tree::UpdateNodes,    *)
(* Tree::Reduce and Tree::Sort hold no check of the vector they work on;   *)
(* on a vector that is empty, or in which a node asks for more children    *)
(* than there are subtrees before it, UpdateNodes (which Reduce and Sort   *)
(* end with) evaluates nodes.back() of an empty vector or nodes[j] with j  *)
(* wrapped below zero.  That access is undefined behaviour: the call       *)
(* either ends the process ("crashed") or returns having read and written  *)
(* outside the vector ("overrun", the vector then holding what the loops   *)
(* computed from the elements inside it).                                  *)
(***************************************************************************)
MaxRawNodes == 3

RawNodes ==
    { NewNode(t, a, h, 0) : t \in LeafTypes \cup FunctionTypes, a \in 0..2, h \in {1} }

\* the inner loop of UpdateNodes reaches an index below the first element
\* while k children are still to be visited
RECURSIVE ChildOutside(_, _, _)
ChildOutside(ns, j, k) ==
    IF k = 0 THEN FALSE
    ELSE IF j < 1 THEN TRUE
    ELSE ChildOutside(ns, j - (ns[j].Length + 1), k - 1)

\* UpdateNodes indexes outside the vector: nodes.back() of an empty vector,
\* or nodes[j] for a child that is not there (the lengths of the nodes
\* before i are those the earlier iterations stored)
IndexesOutside(ns) ==
    \/ ns = <<>>
    \/ LET a == UpdatePass(ns, 1)
       IN \E i \in 1..Len(ns) : ~IsLeaf(ns[i]) /\ ChildOutside(a, i - 1, ns[i].Arity)

\* the vectors a call of UpdateNodes leaves, with the way the call ended
UpdateOutcomes(ns) ==
    IF IndexesOutside(ns)
    THEN { [end |-> "crashed", nodes |-> ns],
           [end |-> "overrun", nodes |-> IF ns = <<>> THEN ns ELSE UpdateNodes(ns)] }
    ELSE { [end |-> "returned", nodes |-> UpdateNodes(ns)] }

RawPush ==
    /\ phase = "raw"
    /\ Len(nodes) < MaxRawNodes
    /\ \E n \in RawNodes :
          /\ (n.Type \in LeafTypes) <=> (n.Arity = 0)
          /\ nodes' = Append(nodes, n)
    /\ UNCHANGED <<phase, orig>>
    /\ UNCHANGED <<creatorVars, compVars>>

RawUpdateNodes ==
    /\ phase = "raw"
    /\ orig' = nodes
    /\ \E r \in UpdateOutcomes(nodes) : phase' = r.end /\ nodes' = r.nodes
    /\ UNCHANGED <<creatorVars, compVars>>

RawReduce ==
    /\ phase = "raw"
    /\ orig' = nodes
    /\ \E r \in UpdateOutcomes(RemoveDisabled(ReducePass(nodes, 1))) :
          phase' = r.end /\ nodes' = r.nodes
    /\ UNCHANGED <<creatorVars, compVars>>

RawSort ==
    /\ phase = "raw"
    /\ orig' = nodes
    /\ \E st \in SortPass({[nodes |-> nodes, sorted |-> nodes]}, 1, Len(nodes)) :
          \E r \in UpdateOutcomes(st.sorted) : phase' = r.end /\ nodes' = r.nodes
    /\ UNCHANGED <<creatorVars, compVars>>

RawTreeInit ==
    /\ nodes = <<>>
    /\ phase = "raw"
    /\ orig = <<>>
    /\ call = NoCall /\ cpc = "off" /\ loc = NoLocals /\ ctree = <<>>
    /\ hs = Idle /\ sel = Idle /\ jsf = Idle /\ ds = Idle /\ mv = Idle /\ co = Idle

RawTreeNext == RawPush \/ RawUpdateNodes \/ RawReduce \/ RawSort

SpecRawTree == RawTreeInit /\ [][RawTreeNext]_vars

\* the vector is empty, or some node's arity asks for more child subtrees
\* than exist before it
ViolatesPostfix(ns) ==
    \/ ns = <<>>
    \/ \E i \in 1..Len(ns) : ns[i].Arity > Roots(SubSeq(ns, 1, i - 1))

(***************************************************************************)
(* C22: UpdateNodes, Reduce and Sort applied to a node vector that is      *)
(* empty, or in which some node's arity asks for more child subtrees than  *)
(* exist before it, fail with an InvalidTree error before changing         *)
(* anything, and do not index outside the vector.                          *)
(***************************************************************************)
C22_IllFormedFailsWithInvalidTree ==
    (phase # "raw" /\ ViolatesPostfix(orig)) =>
        phase = "InvalidTree" /\ nodes = orig

\* the call indexes outside the vector exactly on the vectors of the claim
C22_OverrunIffViolatesPostfix ==
    phase # "raw" => (ViolatesPostfix(orig) <=> phase \in {"crashed", "overrun"})

\* a single function node of arity 1: UpdateNodes returns having set its
\* Length and Depth from an element that is not there
C22_OverrunChangesNodes ==
    /\ phase = "overrun"
    /\ Len(orig) = 1 /\ orig[1].Arity = 1
    /\ nodes # orig

\* the target length the loop of a creator starts with
ClippedTarget == ClipTarget(call.targetLen, MinFunctionArity(call.pset))

\* the PTC2 loop has changed its target length
PtcAdjusted ==
    /\ call.alg = "ptc2"
    /\ cpc \in {"loop", "done"}
    /\ loc.targetLen # ClippedTarget

(***************************************************************************)
(* C23: when the PTC2 loop finds a max arity strictly between 0 and        *)
(* min_function_arity it increases target_length by the shortfall and      *)
(* recomputes the max arity from it: the target length only moves up, and  *)
(* the tree returned after such an adjustment is at least as long as the   *)
(* requested target.                                                       *)
(***************************************************************************)
C23_ShortfallRaisesTarget ==
    PtcAdjusted =>
        /\ loc.targetLen > ClippedTarget
        /\ cpc = "done" => Len(ctree) >= call.targetLen

\* arity set {2}, target 4: the adjustment lowers the target to 3 and the
\* tree returned has 3 nodes
C23_TargetLoweredShortTree ==
    /\ PtcAdjusted
    /\ cpc = "done"
    /\ call.pset = {2} /\ call.targetLen = 4 /\ ~call.bias
    /\ loc.targetLen = 3
    /\ Len(ctree) = 3

\* the balanced creator is inside its fill loop or has returned
BtcRunning == call.alg = "btc" /\ cpc \in {"loop", "done"}

\* what C24 states of every step of the fill loop and of the result
BtcWithinTarget ==
    /\ (call.alg = "btc") => cpc # "failed"
    /\ BtcRunning =>
          /\ loc.targetLen = ClippedTarget
          /\ loc.openSlots + 1 <= loc.targetLen
          /\ loc.targetLen - loc.openSlots - 1 >= 0
    /\ (BtcRunning /\ cpc = "loop") => loc.openSlots - Len(loc.tuples) >= 0
    /\ (BtcRunning /\ cpc = "done") => Len(ctree) <= ClippedTarget

\* every pass of the fill loop adds one node to a vector that never holds
\* more than target_length nodes, so the loop ends after at most
\* target_length passes
BtcProgress ==
    (call.alg = "btc" /\ cpc = "loop") =>
        /\ cpc' \in {"loop", "done"}
        /\ Len(loc'.tuples) = Len(loc.tuples) + 1
        /\ Len(loc'.tuples) <= loc'.targetLen

(***************************************************************************)
(* C24: in the balanced creator, for every target length >= 1 and every    *)
(* primitive set with a leaf and a function, open_slots + 1 <=             *)
(* target_length (after clipping) holds at every step of the fill loop, so *)
(* target_length - open_slots - 1 and open_slots - tuples.size() never     *)
(* wrap below zero, the loop terminates, and the returned tree has at most *)
(* target_length nodes.                                                    *)
(***************************************************************************)
C24_BtcStaysWithinTarget == []BtcWithinTarget /\ [][BtcProgress]_vars

\* the fill loop with its budget used up: the remaining children are leaves
C24_Witness ==
    /\ call.alg = "btc"
    /\ cpc = "loop"
    /\ call.bias
    /\ loc.targetLen = MaxTargetLen
    /\ loc.openSlots + 1 = loc.targetLen
    /\ loc.openSlots - Len(loc.tuples) = 2

\* targetLen - q.size() - nodes.size() - 1 as the next pass of the PTC2 loop
\* computes it, after its dequeue (a negative value is a wrapped one)
PtcBudget == loc.targetLen - (Len(loc.q) - 1) - Len(loc.nodes) - 1

(***************************************************************************)
(* C25: in the PTC2 creator, for every target length >= 1 and every        *)
(* primitive set with a leaf and a function, target_length - queue_size -  *)
(* nodes_so_far - 1 never wraps below zero, also after target_length has   *)
(* been adjusted, and the returned tree never has more nodes than the      *)
(* target length requested (after clipping up to min_function_arity + 1).  *)
(***************************************************************************)
C25_PtcBudgetNeverWraps ==
    (call.alg = "ptc2" /\ cpc \in {"loop", "done"}) =>
        /\ cpc = "loop" => PtcBudget >= 0
        /\ cpc = "done" => Len(ctree) <= ClippedTarget

\* the returned tree alone: it never has more nodes than the clipped target
C25_PtcTreeWithinTarget ==
    (call.alg = "ptc2" /\ cpc = "done") => Len(ctree) <= ClippedTarget

\* arity set {3}, target 5: the target is lowered to 3, the budget wraps,
\* a ternary node is sampled and 2 nodes with 5 pending slots remain
C25_BudgetWrapped ==
    /\ call.alg = "ptc2" /\ cpc = "loop"
    /\ call.pset = {3} /\ call.targetLen = 5
    /\ loc.targetLen = 3
    /\ Len(loc.nodes) = 2 /\ Len(loc.q) = 5
    /\ PtcBudget < 0

(***************************************************************************)
(* C26: with irregularity bias 0 and target length L >= 2 (after           *)
(* clipping), the balanced creator returns a tree whose root is a function *)
(* and whose node count n satisfies L - min_function_arity < n <= L; in    *)
(* particular n = L whenever the primitive set has a function of arity 1.  *)
(***************************************************************************)
C26_BtcLengthNearTarget ==
    (call.alg = "btc" /\ ~call.bias /\ cpc = "done" /\ ClippedTarget >= 2) =>
        /\ ~IsLeaf(ctree[Len(ctree)])
        /\ ClippedTarget - MinFunctionArity(call.pset) < Len(ctree)
        /\ Len(ctree) <= ClippedTarget
        /\ (1 \in call.pset) => Len(ctree) = ClippedTarget

C26_Witness ==
    /\ call.alg = "btc" /\ ~call.bias /\ cpc = "done"
    /\ call.pset = {2, 3}
    /\ call.targetLen = MaxTargetLen
    /\ Len(ctree) = MaxTargetLen - 1

\* the number of the front that holds individual i
FrontOf(fronts, i) == CHOOSE k \in 1..Len(fronts) : i \in Members(fronts[k])

(***************************************************************************)
(* C27: in the inner loop of HierarchicalSorter::Sort a candidate qj is    *)
(* moved to the dominated list only when the front member q1 it is         *)
(* compared with strictly dominates it (every index in the dominated list  *)
(* is strictly dominated by a member of the front under construction);     *)
(* incomparable and equal candidates stay, so individuals with identical   *)
(* fitness vectors end up in the same front.                               *)
(***************************************************************************)
C27_DemotedOnlyWhenDominated ==
    hs.pc # "off" =>
        /\ \A j \in Members(hs.dominated) :
              \E i \in Members(hs.front) : Dominates(hs.pop, i, j)
        /\ hs.pc = "done" =>
              \A i, j \in 0..(Len(hs.pop) - 1) :
                  hs.pop[i + 1] = hs.pop[j + 1] =>
                      FrontOf(hs.fronts, i) = FrontOf(hs.fronts, j)

\* two individuals of equal fitness, returned as two fronts
C27_EqualFitnessSplit ==
    /\ hs.pc = "done"
    /\ hs.pop = << <<1, 1>>, <<1, 1>> >>
    /\ hs.fronts = << <<0>>, <<1>> >>

\* a candidate that dominates q1 is moved to the dominated list
C27_DominatingCandidateDemoted ==
    /\ hs.pc = "take"
    /\ hs.pop = << <<2, 2>>, <<1, 1>> >>
    /\ hs.front = <<0>>
    /\ hs.dominated = <<1>>

\* the generated nodes, each marked with its place in the order of generation
Tagged(ns) == [k \in 1..Len(ns) |-> [ns[k] EXCEPT !.id = k]]

Untagged(t) == [p \in 1..Len(t) |-> [t[p] EXCEPT !.id = 0]]

\* t is a tree of exactly the generated nodes gen, the root first among
\* them, every node with as many children as its arity and on the level of
\* the slot it was dequeued for
HoldsGenerated(t, gen) ==
    /\ WellFormed(t)
    /\ Len(t) = Len(gen)
    /\ Ids(t) = 1..Len(gen)
    /\ t[Len(t)].id = 1
    /\ \A p \in 1..Len(t) :
          /\ t[p].Arity = gen[t[p].id].Arity
          /\ t[p].Type = gen[t[p].id].Type
          /\ Len(Structure(t).kids[p]) = t[p].Arity
          /\ t[p].Level = gen[t[p].id].Depth
    /\ LevelsConsistent(t)

(***************************************************************************)
(* C28: the tree emitted by the PTC2 creator is a well-formed postfix tree *)
(* that contains exactly the nodes generated by the loop (the root and one *)
(* node per dequeued slot), each internal node having exactly Arity        *)
(* children, and after UpdateNodes the Level of every node equals the      *)
(* depth of the slot it was dequeued for (root = 1), whatever order the    *)
(* unstable sort by depth leaves nodes of equal depth in.                  *)
(***************************************************************************)
C28_PtcTreeHoldsGeneratedNodes ==
    (call.alg = "ptc2" /\ cpc = "done") =>
        IF loc.nodes = <<>>
        THEN Len(ctree) = 1 /\ IsLeaf(ctree[1]) /\ ctree[1].Level = 1
        ELSE /\ ctree \in { Untagged(t) : t \in PtcTrees(Tagged(loc.nodes)) }
             /\ \A t \in PtcTrees(Tagged(loc.nodes)) : HoldsGenerated(t, Tagged(loc.nodes))

\* two functions and two leaves on the same depth: the sort has a choice
C28_Witness ==
    /\ call.alg = "ptc2" /\ cpc = "done"
    /\ Len(loc.nodes) = MaxTargetLen
    /\ Cardinality(PtcTrees(Tagged(loc.nodes))) > 4
    /\ \E k \in 1..Len(loc.nodes) : loc.nodes[k].Depth = 3
    /\ \E k, m \in 1..Len(loc.nodes) :
          /\ loc.nodes[k].Depth = 2 /\ loc.nodes[m].Depth = 2
          /\ loc.nodes[k].Arity > 0 /\ loc.nodes[m].Arity = 0

(***************************************************************************)
(* Tree::GetCoefficients and Tree::SetCoefficients.  The nodes carry a     *)
(* Value here (a scalar, given by a number); the tree is built in postfix  *)
(* order and brought up to date by UpdateNodes before the coefficient      *)
(* vectors are read and written, in two calls.  SetCoefficients is called  *)
(* with one value per leaf.                                                *)
(***************************************************************************)
MaxCoNodes == 4

CoValues == {1, 2}

CoArities == {0, 1, 2}

\* a node with its scalar payload
ValueNode(a, v) ==
    [Type |-> IF a = 0 THEN "Variable" ELSE "Add", Arity |-> a, HashValue |-> 0,
     Length |-> 0, Depth |-> 1, Level |-> 0, Parent |-> 0, IsEnabled |-> TRUE,
     id |-> 0, Value |-> v]

RECURSIVE GetCoefficients(_)
GetCoefficients(ns) ==
    IF ns = <<>> THEN <<>>
    ELSE IF IsLeaf(Head(ns)) THEN <<Head(ns).Value>> \o GetCoefficients(Tail(ns))
    ELSE GetCoefficients(Tail(ns))

RECURSIVE SetCoefficientsWrong(_, _)
SetCoefficientsWrong(ns, coefficients) ==
    IF ns = <<>> THEN <<>>
    ELSE IF IsLeaf(Head(ns))
         THEN <<[Head(ns) EXCEPT !.Value = Head(coefficients)]>>
              \o SetCoefficientsWrong(Tail(ns), coefficients)
         ELSE <<Head(ns)>> \o SetCoefficientsWrong(Tail(ns), coefficients)

\* the loop of SetCoefficients; the head of coefficients is coefficients[idx]
RECURSIVE SetCoefficients(_, _)
SetCoefficients(ns, coefficients) ==
    IF ns = <<>> THEN <<>>
    ELSE IF IsLeaf(Head(ns))
         THEN <<[Head(ns) EXCEPT !.Value = Head(coefficients)]>>
              \o SetCoefficients(Tail(ns), Tail(coefficients))
         ELSE <<Head(ns)>> \o SetCoefficients(Tail(ns), coefficients)

LeafCount(ns) == Cardinality({ p \in 1..Len(ns) : IsLeaf(ns[p]) })

CoPush ==
    /\ co.pc = "build"
    /\ Len(co.nodes) < MaxCoNodes
    /\ \E a \in CoArities, v \in CoValues :
          /\ a <= Roots(co.nodes)
          /\ co' = [co EXCEPT !.nodes = Append(co.nodes, ValueNode(a, v))]
    /\ UNCHANGED <<treeVars, creatorVars, hs, sel, jsf, ds, mv>>

CoUpdateNodes ==
    /\ co.pc = "build"
    /\ Len(co.nodes) >= 1
    /\ Roots(co.nodes) = 1
    /\ co' = [co EXCEPT !.nodes = UpdateNodes(co.nodes), !.pc = "live"]
    /\ UNCHANGED <<treeVars, creatorVars, hs, sel, jsf, ds, mv>>

CoAfter(op, ns, coefficients, arg) ==
    [co EXCEPT !.nodes = ns, !.before = co.nodes, !.coefficients = coefficients,
               !.arg = arg, !.last = op, !.prev = co.last]

CoGetCoefficients ==
    /\ co.pc = "live"
    /\ co.prev = ""
    /\ co' = CoAfter("Get", co.nodes, GetCoefficients(co.nodes), co.arg)
    /\ UNCHANGED <<treeVars, creatorVars, hs, sel, jsf, ds, mv>>

CoSetCoefficients ==
    /\ co.pc = "live"
    /\ co.prev = ""
    /\ \E v \in [1..LeafCount(co.nodes) -> CoValues] :
          co' = CoAfter("Set", SetCoefficients(co.nodes, v), co.coefficients, v)
    /\ UNCHANGED <<treeVars, creatorVars, hs, sel, jsf, ds, mv>>

\* SetCoefficients(GetCoefficients())
CoSetGetCoefficients ==
    /\ co.pc = "live"
    /\ co.prev = ""
    /\ LET v == GetCoefficients(co.nodes)
       IN co' = CoAfter("SetGet", SetCoefficients(co.nodes, v), co.coefficients, v)
    /\ UNCHANGED <<treeVars, creatorVars, hs, sel, jsf, ds, mv>>

CoefficientsInit ==
    /\ nodes = <<>> /\ phase = "off" /\ orig = <<>>
    /\ call = NoCall /\ cpc = "off" /\ loc = NoLocals /\ ctree = <<>>
    /\ hs = Idle /\ sel = Idle /\ jsf = Idle /\ ds = Idle /\ mv = Idle
    /\ co = [pc |-> "build", nodes |-> <<>>, before |-> <<>>, coefficients |-> <<>>,
             arg |-> <<>>, last |-> "", prev |-> ""]

CoefficientsNext ==
    CoPush \/ CoUpdateNodes \/ CoGetCoefficients \/ CoSetCoefficients \/ CoSetGetCoefficients

SpecCoefficients == CoefficientsInit /\ [][CoefficientsNext]_vars

\* the positions of the leaves, ascending
LeafPositions(ns) == Ascending({ p \in 1..Len(ns) : IsLeaf(ns[p]) })

\* the Values at the leaf positions, in ascending order of position
LeafValues(ns) == [k \in 1..LeafCount(ns) |-> ns[LeafPositions(ns)[k]].Value]

\* the number of leaves at the positions up to p
LeafRank(ns, p) == Cardinality({ r \in 1..p : IsLeaf(ns[r]) })

(***************************************************************************)
(* C29: GetCoefficients returns the Value of every leaf in ascending array *)
(* order, one entry per leaf and none for an internal node;                *)
(* SetCoefficients(GetCoefficients()) leaves the tree unchanged;           *)
(* SetCoefficients(v) with one value per leaf changes only the Value of    *)
(* the leaves, so that a following GetCoefficients returns v and every     *)
(* other field of every node is unchanged.                                 *)
(***************************************************************************)
C29_CoefficientsRoundTrip ==
    co.pc = "live" =>
        /\ co.last = "Get" =>
              /\ co.coefficients = LeafValues(co.nodes)
              /\ Len(co.coefficients) = LeafCount(co.nodes)
              /\ co.nodes = co.before
              /\ co.prev = "Set" => co.coefficients = co.arg
        /\ co.last = "SetGet" => co.nodes = co.before
        /\ co.last = "Set" =>
              /\ Len(co.nodes) = Len(co.before)
              /\ \A p \in 1..Len(co.nodes) :
                    co.nodes[p] =
                        IF IsLeaf(co.before[p])
                        THEN [co.before[p] EXCEPT
                                !.Value = co.arg[LeafRank(co.before, p)]]
                        ELSE co.before[p]

\* a tree with two leaves, one below a unary node, under a binary root: the
\* values 2, 1 written by SetCoefficients and read back by GetCoefficients
C29_Witness ==
    /\ co.pc = "live"
    /\ co.last = "Get" /\ co.prev = "Set"
    /\ Len(co.nodes) = 4
    /\ co.nodes[4].Arity = 2
    /\ co.nodes[2].Arity = 1
    /\ co.before[1].Value = 2 /\ co.before[3].Value = 1
    /\ co.arg = <<2, 1>>
    /\ co.coefficients = <<2, 1>>
    /\ co.nodes[4].Value # co.nodes[3].Value

====
